---- MODULE Spec2Model ----
(***************************************************************************)
(* Format-detection and normalisation engine of DatasetPipeline            *)
(* (app/format): the chain Merger | SFT | ConversationalText |             *)
(* Conversational | DPO | Output of Format.format, the ordered-regex       *)
(* column binding of SFTFormat / DPOFormat, and the helpers they use;      *)
(* the thread-pool fan-out of app/helpers/utils.py with its callers, the   *)
(* retry of call_openai_api and the parallel saving of Job.run.            *)
(***************************************************************************)
EXTENDS Integers, Sequences, FiniteSets, TLC

VARIABLES
    pc,             \* position of Format.format in the chain
    cfg,            \* the FormatConfig (sub-config "None" = absent)
    dataset,        \* self.dataset of the stage instance at the head of the chain
    inst,           \* attributes the head instance computed in its constructor
    formats,        \* self.formats of the head instance
    messages_cols,  \* self.messages_cols of the head instance
    raised,         \* exception that left Format.format, "none" if none
    hist,           \* per stage: dataset it was built on, dataset it returned, is_this_format
    b_pc,           \* position inside _get_role_col_map / _get_col_map
    pattern_role_map, \* self.pattern_role_map, the configured table
    p_r_map,        \* the shrinking pattern -> role table of the walk
    b_cols,         \* list(data): the column names walked
    b_i,            \* index of the next column of the walk
    role_col,       \* list of (role, column) pairs bound so far
    b_out,          \* the dict returned and is_this_format of SFTFormat / DPOFormat on it
    p_pc,           \* position of a caller of TextUtils.parse_to_dict
    p_template,     \* the template argument, as its tokens
    p_text,         \* the formatted_text argument
    p_result,       \* what the call gave: exception and dict
    last_gpt4_choosed_key, \* the module-level dict {round, api} of call_openai.py
    k_pc,           \* per thread: position inside choosed_gpt4_key
    k_calls,        \* per thread: calls of choosed_gpt4_key made so far
    k_branch,       \* per thread: the branch of the if/elif chain tested or taken
    k_round,        \* per thread: the round read for "round + 1"
    current_choosed_key, \* per thread: the local copy that is returned
    x_caller,       \* the caller of run_parallel_exec
    x_items,        \* list(iterable): the elements submitted to the executor
    x_pending,      \* indexes of the futures that have not completed
    x_tries,        \* per index: attempts of get_text_quality made by @retry
    x_computed,     \* per index: what exec_func returned or raised for it
    x_result,       \* the (element, data) tuples, in completion order
    x_pc,           \* position of the caller
    x_out,          \* what the caller returned or the exception that left it
    c_caller,       \* the caller of call_openai_api
    c_pc,           \* position inside call_openai_api
    c_error,        \* str(e) of the exception of the last attempt
    c_slept,        \* seconds of the last sleep
    c_attempts,     \* calls of openai.ChatCompletion.create made, up to MaxAttempts
    s_data,         \* the (name, dataset) tuples Job.run hands to Job.save
    s_filename,     \* self.config.save.local.filename, shared by the workers
    s_pc,           \* per worker: position inside Job.save
    s_files         \* the files written: path and the dataset in it

vars == <<pc, cfg, dataset, inst, formats, messages_cols, raised, hist,
          b_pc, pattern_role_map, p_r_map, b_cols, b_i, role_col, b_out,
          p_pc, p_template, p_text, p_result,
          last_gpt4_choosed_key, k_pc, k_calls, k_branch, k_round, current_choosed_key,
          x_caller, x_items, x_pending, x_tries, x_computed, x_result, x_pc, x_out,
          c_caller, c_pc, c_error, c_slept, c_attempts,
          s_data, s_filename, s_pc, s_files>>

chainVars == <<pc, cfg, dataset, inst, formats, messages_cols, raised, hist>>
bindVars == <<b_pc, pattern_role_map, p_r_map, b_cols, b_i, role_col, b_out>>
parseVars == <<p_pc, p_template, p_text, p_result>>
keyVars == <<last_gpt4_choosed_key, k_pc, k_calls, k_branch, k_round, current_choosed_key>>
parVars == <<x_caller, x_items, x_pending, x_tries, x_computed, x_result, x_pc, x_out>>
callVars == <<c_caller, c_pc, c_error, c_slept, c_attempts>>
saveVars == <<s_data, s_filename, s_pc, s_files>>
runVars == <<parVars, callVars, saveVars>>

----------------------------------------------------------------------------
(* Bounds of the model *)

NumRows == 2
MaxPats == 3
MaxBindCols == 3
MaxTextLen == 4
NumThreads == 2
MaxItems == 3
MaxAttempts == 3
MaxSaves == 3
MaxCalls == 3

----------------------------------------------------------------------------
(* app/constants.py *)

SYSTEM == "system"
USER == "user"
ASSISTANT == "assistant"
CHOSEN == "chosen"
REJECTED == "rejected"
ROLE == "role"
CONTENT == "content"

MessageRole == {SYSTEM, USER, ASSISTANT}
DPOColumns == {CHOSEN, REJECTED, USER, SYSTEM}

----------------------------------------------------------------------------
(* Strings as character sequences: column names and regex patterns.  TLC  *)
(* cannot index a string, so every name and pattern used is spelled out.  *)

Chars ==
   ("question" :> <<"q", "u", "e", "s", "t", "i", "o", "n">>) @@
   ("answer" :> <<"a", "n", "s", "w", "e", "r">>) @@
   ("prompt" :> <<"p", "r", "o", "m", "p", "t">>) @@
   ("response" :> <<"r", "e", "s", "p", "o", "n", "s", "e">>) @@
   ("chosen" :> <<"c", "h", "o", "s", "e", "n">>) @@
   ("rejected" :> <<"r", "e", "j", "e", "c", "t", "e", "d">>) @@
   ("system" :> <<"s", "y", "s", "t", "e", "m">>) @@
   ("user" :> <<"u", "s", "e", "r">>) @@
   ("assistant" :> <<"a", "s", "s", "i", "s", "t", "a", "n", "t">>) @@
   ("conversations" :> <<"c", "o", "n", "v", "e", "r", "s", "a", "t", "i", "o", "n", "s">>) @@
   ("messages" :> <<"m", "e", "s", "s", "a", "g", "e", "s">>) @@
   ("text" :> <<"t", "e", "x", "t">>) @@
   ("id" :> <<"i", "d">>) @@
   ("Human" :> <<"H", "u", "m", "a", "n">>) @@
   ("user_input" :> <<"u", "s", "e", "r", "_", "i", "n", "p", "u", "t">>) @@
   ("system_prompt" :> <<"s", "y", "s", "t", "e", "m", "_", "p", "r", "o", "m", "p", "t">>) @@
   ("Input" :> <<"I", "n", "p", "u", "t">>) @@
   ("human.*" :> <<"h", "u", "m", "a", "n", ".", "*">>) @@
   ("question.*" :> <<"q", "u", "e", "s", "t", "i", "o", "n", ".", "*">>) @@
   ("user.*" :> <<"u", "s", "e", "r", ".", "*">>) @@
   ("dialogue.*" :> <<"d", "i", "a", "l", "o", "g", "u", "e", ".", "*">>) @@
   ("input.*" :> <<"i", "n", "p", "u", "t", ".", "*">>) @@
   ("^prompt.*" :> <<"^", "p", "r", "o", "m", "p", "t", ".", "*">>) @@
   ("^instruction.*" :> <<"^", "i", "n", "s", "t", "r", "u", "c", "t", "i", "o", "n", ".", "*">>) @@
   ("message_1" :> <<"m", "e", "s", "s", "a", "g", "e", "_", "1">>) @@
   ("source.*" :> <<"s", "o", "u", "r", "c", "e", ".", "*">>) @@
   ("response.*" :> <<"r", "e", "s", "p", "o", "n", "s", "e", ".", "*">>) @@
   ("output.*" :> <<"o", "u", "t", "p", "u", "t", ".", "*">>) @@
   ("assistant.*" :> <<"a", "s", "s", "i", "s", "t", "a", "n", "t", ".", "*">>) @@
   ("answer.*" :> <<"a", "n", "s", "w", "e", "r", ".", "*">>) @@
   ("summary.*" :> <<"s", "u", "m", "m", "a", "r", "y", ".", "*">>) @@
   ("gpt.*" :> <<"g", "p", "t", ".", "*">>) @@
   ("support.*" :> <<"s", "u", "p", "p", "o", "r", "t", ".", "*">>) @@
   ("message_2" :> <<"m", "e", "s", "s", "a", "g", "e", "_", "2">>) @@
   ("target.*" :> <<"t", "a", "r", "g", "e", "t", ".", "*">>) @@
   ("system.*" :> <<"s", "y", "s", "t", "e", "m", ".", "*">>) @@
   ("instruction.*" :> <<"i", "n", "s", "t", "r", "u", "c", "t", "i", "o", "n", ".", "*">>) @@
   ("chosen.*" :> <<"c", "h", "o", "s", "e", "n", ".", "*">>) @@
   ("rejected.*" :> <<"r", "e", "j", "e", "c", "t", "e", "d", ".", "*">>) @@
   ("trajectory.*" :> <<"t", "r", "a", "j", "e", "c", "t", "o", "r", "y", ".", "*">>) @@
   ("hi" :> <<"h", "i">>) @@
   ("yo" :> <<"y", "o">>) @@
   ("42" :> <<"4", "2">>) @@
   ("Q:hi A:yo" :> <<"Q", ":", "h", "i", " ", "A", ":", "y", "o">>) @@
   ("A:yo Q:hi" :> <<"A", ":", "y", "o", " ", "Q", ":", "h", "i">>) @@
   ("human" :> <<"h", "u", "m", "a", "n">>) @@
   ("gpt" :> <<"g", "p", "t">>) @@
   ("sys" :> <<"s", "y", "s">>) @@
   ("tool" :> <<"t", "o", "o", "l">>) @@
   ("prompt.*" :> <<"p", "r", "o", "m", "p", "t", ".", "*">>) @@
   (" " :> <<" ">>)

\* str.lower() of one character, for re.IGNORECASE
Lower(c) ==
    CASE c = "H" -> "h"
      [] c = "I" -> "i"
      [] OTHER -> c

Range(f) == {f[x] : x \in DOMAIN f}

\* the pattern without a leading "^"
PatBody(p) ==
    LET cs == Chars[p]
    IN IF Len(cs) > 0 /\ cs[1] = "^" THEN Tail(cs) ELSE cs

PatAnchored(p) == Len(Chars[p]) > 0 /\ Chars[p][1] = "^"

\* the pattern body without a trailing ".*" (which matches any rest, also the empty one)
PatLit(p) ==
    LET b == PatBody(p)
        n == Len(b)
    IN IF n >= 2 /\ b[n - 1] = "." /\ b[n] = "*" THEN SubSeq(b, 1, n - 2) ELSE b

\* the literal lit matches name at offset i: "." matches any character,
\* every other character matches itself ignoring case
LitAt(lit, name, i) ==
    /\ i + Len(lit) - 1 <= Len(name)
    /\ \A k \in 1..Len(lit) :
          lit[k] = "." \/ Lower(lit[k]) = Lower(name[i + k - 1])

\* re.search(pattern, item, re.IGNORECASE) is not None
ReSearch(p, item) ==
    LET name == Chars[item]
        lit == PatLit(p)
    IN IF PatAnchored(p)
       THEN LitAt(lit, name, 1)
       ELSE \E i \in 1..(Len(name) + 1) : LitAt(lit, name, i)

----------------------------------------------------------------------------
(* app/helpers/regex_dict.py and the column walk of sft.py / dpo.py.  A   *)
(* RegexDict is the sequence of its (pattern, role) items in dict order.  *)

None == "None"

\* index of the first item whose pattern matches, 0 if there is none
RECURSIVE FirstMatch(_, _, _)
FirstMatch(m, item, i) ==
    IF i > Len(m) THEN 0
    ELSE IF ReSearch(m[i].pat, item) THEN i
    ELSE FirstMatch(m, item, i + 1)

\* RegexDict.get(item): __getitem__ caught on KeyError, default None
RegexDictGet(m, item) ==
    LET i == FirstMatch(m, item, 1)
    IN IF i = 0 THEN None ELSE m[i].role

\* the lookup table left as it is after a role is claimed
KeepAllPatterns(m, key) == m

\* RegexDict({k: v for k, v in p_r_map.items() if v != key})
DropRole(m, key) ==
    LET Keep(e) == e.role # key
    IN SelectSeq(m, Keep)

\* one iteration of "for col in list(data)" on the walk state [map, rc]
BindOne(st, col) ==
    LET key == RegexDictGet(st.map, col)
    IN IF key # None
       THEN [map |-> DropRole(st.map, key), rc |-> Append(st.rc, <<key, col>>)]
       ELSE st

RECURSIVE BindAll(_, _, _)
BindAll(st, cols, i) ==
    IF i > Len(cols) THEN st
    ELSE BindAll(BindOne(st, cols[i]), cols, i + 1)

\* dict(role_col): a later pair with the same key replaces the earlier one
DictOf(rc) ==
    [r \in {rc[i][1] : i \in DOMAIN rc} |->
        LET last == CHOOSE i \in DOMAIN rc :
                       /\ rc[i][1] = r
                       /\ \A j \in DOMAIN rc : rc[j][1] = r => j <= i
        IN rc[last][2]]

\* SFTFormat._get_role_col_map (regex mode) and DPOFormat._get_col_map
GetRoleColMap(m, cols) ==
    DictOf(BindAll([map |-> m, rc |-> <<>>], cols, 1).rc)

----------------------------------------------------------------------------
(* Values.  A cell is a string, a number, None or a list of dicts; a dict *)
(* is the sequence of its items in insertion order.  The text of a string *)
(* (and the digits of a number) is a sequence of characters.  Every cell  *)
(* has the same three fields so that any two cells can be compared.       *)

Str(s) == [t |-> "str", s |-> s, c |-> <<>>]
Num(s) == [t |-> "num", s |-> s, c |-> <<>>]
Null == [t |-> "null", s |-> <<>>, c |-> <<>>]
List(items) == [t |-> "list", s |-> <<>>, c |-> items]

Item(k, v) == [k |-> k, val |-> v]

DictKeys(d) == {d[i].k : i \in DOMAIN d}
DictHas(d, k) == k \in DictKeys(d)
DictGet(d, k) == d[CHOOSE i \in DOMAIN d : d[i].k = k].val

\* Python equality of cells and of dicts: dicts compare by key set and
\* values, whatever the insertion order; lists compare element by element
RECURSIVE CellEq(_, _), DictEq(_, _)
CellEq(a, b) ==
    /\ a.t = b.t
    /\ a.s = b.s
    /\ Len(a.c) = Len(b.c)
    /\ \A i \in 1..Len(a.c) : DictEq(a.c[i], b.c[i])

DictEq(a, b) ==
    /\ DictKeys(a) = DictKeys(b)
    /\ \A k \in DictKeys(a) : CellEq(DictGet(a, k), DictGet(b, k))

\* the canonical message {"role": role, "content": content}
Msg(role, content) == <<Item(ROLE, Str(Chars[role])), Item(CONTENT, content)>>

----------------------------------------------------------------------------
(* datasets.Dataset: the ordered column names and the rows, each row a    *)
(* function from the column names to cells                                *)

ColSet(ds) == Range(ds.cols)

\* dataset.map(lambda x: {col: f(x)}): a new column is appended, an
\* existing one is replaced in place; vals[i] is f(row i)
MapColumn(ds, col, vals) ==
    [cols |-> IF col \in ColSet(ds) THEN ds.cols ELSE Append(ds.cols, col),
     rows |-> [i \in DOMAIN ds.rows |->
                 [c \in ColSet(ds) \cup {col} |->
                     IF c = col THEN vals[i] ELSE ds.rows[i][c]]]]

\* dataset.select_columns(names) / dataset.remove_columns(names)
\* a projection that loses the rows when it keeps no column
KeepColumnsOrNothing(ds, names) ==
    LET Kept(c) == c \in names
    IN [cols |-> SelectSeq(ds.cols, Kept),
        rows |-> IF ColSet(ds) \cap names = {} THEN <<>>
                 ELSE [i \in DOMAIN ds.rows |->
                         [c \in ColSet(ds) \cap names |-> ds.rows[i][c]]]]

KeepColumns(ds, names) ==
    LET Kept(c) == c \in names
    IN [cols |-> SelectSeq(ds.cols, Kept),
        rows |-> [i \in DOMAIN ds.rows |-> [c \in ColSet(ds) \cap names |-> ds.rows[i][c]]]]

RemoveColumns(ds, names) == KeepColumns(ds, ColSet(ds) \ names)

----------------------------------------------------------------------------
(* app/helpers/types.py *)

IsStrOrNone(v) == v.t \in {"str", "null"}

\* is_conv_type(value): a non-empty list of dicts of 2 or 3 items whose
\* values are strings or None
is_conv_type(value) ==
    /\ value.t = "list"
    /\ Len(value.c) >= 1
    /\ \A i \in 1..Len(value.c) :
          /\ \A j \in 1..Len(value.c[i]) : IsStrOrNone(value.c[i][j].val)
          /\ Len(value.c[i]) \in {2, 3}

\* is_standard_type(value): a non-empty list of {role, content} dicts with
\* a canonical role
is_standard_type(value) ==
    /\ value.t = "list"
    /\ Len(value.c) >= 1
    /\ \A i \in 1..Len(value.c) :
          /\ \A j \in 1..Len(value.c[i]) : IsStrOrNone(value.c[i][j].val)
          /\ DictKeys(value.c[i]) = {ROLE, CONTENT}
          /\ DictGet(value.c[i], ROLE).t = "str"
          /\ DictGet(value.c[i], ROLE).s \in {Chars[r] : r \in MessageRole}

\* BaseFormat.get_conv_columns on the sample record dataset[rnd_ix]
get_conv_columns(ds, rnd_ix) ==
    LET IsConv(c) == is_conv_type(ds.rows[rnd_ix][c])
    IN SelectSeq(ds.cols, IsConv)

----------------------------------------------------------------------------------------------------------------------------------------
(* Optional configuration objects: an absent (None) config or sub-config  *)
(* is the record NoneCfg, so that it can be compared with a present one   *)

NoneCfg == [is_none |-> TRUE]
IsNone(c) == c = NoneCfg

----------------------------------------------------------------------------
(* app/format/merger.py.  A FieldConfig is None or the record             *)
(* [fields, separator, merged_field]; "fields: None" is fields_none,      *)
(* "merged_field: None" is the string None, the separator is a sequence   *)
(* of characters                                                          *)

FieldConfig(fields_none, fields, separator, merged_field) ==
    [fields_none |-> fields_none, fields |-> fields,
     separator |-> separator, merged_field |-> merged_field]

\* "not fc.fields": fields is None or the empty list
NoFields(fc) == fc.fields_none \/ fc.fields = <<>>

\* "fc.fields or []"
FieldsOrEmpty(fc) == IF fc.fields_none THEN {} ELSE Range(fc.fields)

\* MergerFormat.config_fields (evaluated only where no group is None)
config_fields(mc) ==
    FieldsOrEmpty(mc.system) \cup FieldsOrEmpty(mc.user) \cup FieldsOrEmpty(mc.assistant)

\* MergerFormat.is_this_format: "AttributeError" where the property reads
\* .fields of a group that is None
Merger_is_this_format(ds, mc) ==
    IF IsNone(mc.system) /\ IsNone(mc.user) /\ IsNone(mc.assistant) THEN "False"
    ELSE IF IsNone(mc.system) THEN "AttributeError"
    ELSE IF ~NoFields(mc.system)
         THEN IF IsNone(mc.user) \/ IsNone(mc.assistant) THEN "AttributeError"
              ELSE IF config_fields(mc) \subseteq ColSet(ds) THEN "True" ELSE "False"
    ELSE IF IsNone(mc.user) THEN "AttributeError"
    ELSE IF ~NoFields(mc.user)
         THEN IF IsNone(mc.assistant) THEN "AttributeError"
              ELSE IF config_fields(mc) \subseteq ColSet(ds) THEN "True" ELSE "False"
    ELSE IF IsNone(mc.assistant) THEN "AttributeError"
    ELSE IF NoFields(mc.assistant) THEN "False"
    ELSE IF config_fields(mc) \subseteq ColSet(ds) THEN "True"
    ELSE "False"

\* separator.join(parts)
RECURSIVE Join(_, _)
Join(sep, parts) ==
    IF Len(parts) = 0 THEN <<>>
    ELSE IF Len(parts) = 1 THEN parts[1]
    ELSE parts[1] \o sep \o Join(sep, Tail(parts))

\* MergerFormat._merge_field_vals: the string values of the listed fields,
\* in listed order; data.get(field) of a missing column is None
_merge_field_vals(row, fc) ==
    LET IsStrField(f) == f \in DOMAIN row /\ row[f].t = "str"
        strs == SelectSeq(fc.fields, IsStrField)
    IN Str(Join(fc.separator, [i \in DOMAIN strs |-> row[strs[i]].s]))

\* MergerFormat._apply_field_config
_apply_field_config(ds, fc) ==
    IF fc.fields_none \/ fc.merged_field = None THEN ds
    ELSE MapColumn(ds, fc.merged_field,
                   [i \in DOMAIN ds.rows |-> _merge_field_vals(ds.rows[i], fc)])

\* MergerFormat._apply_field_configs
RECURSIVE _apply_field_configs(_, _)
_apply_field_configs(ds, fcs) ==
    IF Len(fcs) = 0 THEN ds
    ELSE IF IsNone(Head(fcs)) THEN _apply_field_configs(ds, Tail(fcs))
    ELSE _apply_field_configs(_apply_field_config(ds, Head(fcs)), Tail(fcs))

\* "fc.merged_field = fc.merged_field or <role>" of MergerFormat._format
WithMergedField(fc, role) ==
    IF fc.merged_field = None \/ fc.merged_field = ""
    THEN [fc EXCEPT !.merged_field = role] ELSE fc

\* the config as MergerFormat._format leaves it
MergerConfigAfter(mc) ==
    [mc EXCEPT !.system = WithMergedField(mc.system, SYSTEM),
               !.user = WithMergedField(mc.user, USER),
               !.assistant = WithMergedField(mc.assistant, ASSISTANT)]

\* MergerFormat._format where is_this_format is true
Merger_apply(ds, mc) ==
    LET c == MergerConfigAfter(mc)
        merged == _apply_field_configs(ds, <<c.system, c.user, c.assistant>>)
        merged_fields == {c.system.merged_field, c.user.merged_field, c.assistant.merged_field}
    IN IF c.remove_other_cols
       THEN RemoveColumns(merged, config_fields(c) \ merged_fields)
       ELSE merged

----------------------------------------------------------------------------
(* app/format/sft.py *)

\* PATTERN_ROLE_MAP of sft.py as the dict literal evaluates: the repeated
\* key "input.*" keeps its first position and takes its last value
SFT_PATTERN_ROLE_MAP ==
    << [pat |-> "human.*", role |-> USER],
       [pat |-> "question.*", role |-> USER],
       [pat |-> "user.*", role |-> USER],
       [pat |-> "dialogue.*", role |-> USER],
       [pat |-> "input.*", role |-> SYSTEM],
       [pat |-> "^prompt.*", role |-> USER],
       [pat |-> "^instruction.*", role |-> USER],
       [pat |-> "message_1", role |-> USER],
       [pat |-> "source.*", role |-> USER],
       [pat |-> "response.*", role |-> ASSISTANT],
       [pat |-> "output.*", role |-> ASSISTANT],
       [pat |-> "assistant.*", role |-> ASSISTANT],
       [pat |-> "answer.*", role |-> ASSISTANT],
       [pat |-> "summary.*", role |-> ASSISTANT],
       [pat |-> "gpt.*", role |-> ASSISTANT],
       [pat |-> "support.*", role |-> ASSISTANT],
       [pat |-> "message_2", role |-> ASSISTANT],
       [pat |-> "target.*", role |-> ASSISTANT],
       [pat |-> "system.*", role |-> SYSTEM],
       [pat |-> "instruction.*", role |-> SYSTEM] >>

\* SFTConfig()
SFTConfig == [use_openai |-> FALSE, column_role_map |-> SFT_PATTERN_ROLE_MAP]

\* applicable as soon as any two roles are bound
SFT_any_two_roles(role_col_map) ==
    Cardinality(DOMAIN role_col_map) >= 2

\* SFTFormat.is_this_format
SFT_is_this_format(role_col_map) ==
    IF ASSISTANT \notin DOMAIN role_col_map THEN FALSE
    ELSE IF USER \notin DOMAIN role_col_map THEN FALSE
    ELSE Cardinality(DOMAIN role_col_map) >= 2

\* the messages with the system message after the other two
_make_messages_system_last(data, role_col_map) ==
    LET Bound(x) == x \in DOMAIN role_col_map
        roles == SelectSeq(<<USER, ASSISTANT, SYSTEM>>, Bound)
    IN [i \in DOMAIN roles |-> Msg(roles[i], data[role_col_map[roles[i]]])]

\* SFTFormat._make_messages
_make_messages(data, role_col_map) ==
    LET Bound(x) == x \in DOMAIN role_col_map
        roles == SelectSeq(<<SYSTEM, USER, ASSISTANT>>, Bound)
    IN [i \in DOMAIN roles |-> Msg(roles[i], data[role_col_map[roles[i]]])]

\* _format without the test of is_this_format
SFT_format_unguarded(ds, role_col_map) ==
    MapColumn(ds, "messages",
              [i \in DOMAIN ds.rows |-> List(_make_messages(ds.rows[i], role_col_map))])

\* SFTFormat._format: the dataset returned
SFT_format(ds, role_col_map) ==
    IF ~SFT_is_this_format(role_col_map) THEN ds
    ELSE MapColumn(ds, "messages",
                   [i \in DOMAIN ds.rows |-> List(_make_messages(ds.rows[i], role_col_map))])

----------------------------------------------------------------------------
(* app/format/dpo.py *)

DPO_PATTERN_ROLE_MAP ==
    << [pat |-> "chosen.*", role |-> CHOSEN],
       [pat |-> "rejected.*", role |-> REJECTED],
       [pat |-> "trajectory.*", role |-> USER],
       [pat |-> "instruction.*", role |-> USER],
       [pat |-> "human.*", role |-> USER],
       [pat |-> "question.*", role |-> USER],
       [pat |-> "^prompt.*", role |-> USER],
       [pat |-> "user.*", role |-> USER],
       [pat |-> "system.*", role |-> SYSTEM] >>

\* DPOConfig()
DPOConfig == [column_role_map |-> DPO_PATTERN_ROLE_MAP]

\* applicable as soon as the chosen role and one other role are bound
DPO_chosen_and_any(col_map) ==
    Cardinality(DOMAIN col_map) >= 2 /\ CHOSEN \in DOMAIN col_map

\* DPOFormat.is_this_format
DPO_is_this_format(col_map) ==
    IF Cardinality(DOMAIN col_map) < 2 THEN FALSE
    ELSE {CHOSEN, REJECTED} \subseteq DOMAIN col_map

\* a message is a duplicate as soon as an earlier one has its content
NotInByContent(message, msgs) ==
    \A i \in DOMAIN msgs : ~CellEq(DictGet(message, CONTENT), DictGet(msgs[i], CONTENT))

\* "message not in deduped_messages"
NotIn(message, msgs) == \A i \in DOMAIN msgs : ~DictEq(message, msgs[i])

\* the assembled messages returned as they are
NoDedup(messages, deduped) == deduped \o messages

\* the de-duplication loop of _convert_row_to_messages
RECURSIVE Dedup(_, _)
Dedup(messages, deduped) ==
    IF Len(messages) = 0 THEN deduped
    ELSE Dedup(Tail(messages),
               IF NotIn(Head(messages), deduped) THEN Append(deduped, Head(messages))
               ELSE deduped)

\* the role given to a column that is not a conversation column
DPORoleOf(col_type) ==
    IF col_type = SYSTEM THEN SYSTEM
    ELSE IF col_type = USER THEN USER
    ELSE ASSISTANT

\* the messages one col_type of the loop contributes for this row
DPOPart(row, col_map, conv_cols, col_type) ==
    IF col_type \notin DOMAIN col_map THEN <<>>
    ELSE LET col == col_map[col_type]
         IN IF col \in Range(conv_cols) THEN row[col].c
            ELSE <<Msg(DPORoleOf(col_type), row[col])>>

\* messages.extend(row[col]) raises TypeError when row[col] is None
DPORowRaises(row, col_map, conv_cols) ==
    \E col_type \in DOMAIN col_map :
        /\ col_map[col_type] \in Range(conv_cols)
        /\ row[col_map[col_type]].t = "null"

\* DPOFormat._convert_row_to_messages
_convert_row_to_messages(row, col_map, conv_cols, assistant_col) ==
    Dedup(DPOPart(row, col_map, conv_cols, SYSTEM)
            \o DPOPart(row, col_map, conv_cols, USER)
            \o DPOPart(row, col_map, conv_cols, assistant_col), <<>>)

\* DPOFormat._format where is_this_format is true: the map of
\* _convert_chosen_rejected_to_messages over the rows
DPO_apply(ds, col_map, conv_cols) ==
    LET withChosen == MapColumn(ds, CHOSEN,
            [i \in DOMAIN ds.rows |->
                List(_convert_row_to_messages(ds.rows[i], col_map, conv_cols, CHOSEN))])
    IN [cols |-> IF REJECTED \in ColSet(withChosen) THEN withChosen.cols
                 ELSE Append(withChosen.cols, REJECTED),
        rows |-> [i \in DOMAIN ds.rows |->
                    [c \in ColSet(withChosen) \cup {REJECTED} |->
                        IF c = REJECTED
                        THEN List(_convert_row_to_messages(ds.rows[i], col_map, conv_cols, REJECTED))
                        ELSE withChosen.rows[i][c]]]]

----------------------------------------------------------------------------
(* app/format/output.py *)

\* OutputConfig()
OutputConfig == [return_only_messages |-> FALSE]

\* OutputFormat._format
Output_format(ds, oc, msg_cols) ==
    IF oc.return_only_messages THEN KeepColumns(ds, msg_cols) ELSE ds

----------------------------------------------------------------------------
(* app/format/conv.py and app/models/conv.py *)

SampleLimit == 1000

Min(a, b) == IF a < b THEN a ELSE b

\* chain(*self.dataset[column][:1000]): the turns of the first 1000 rows
RECURSIVE Flatten(_, _, _)
Flatten(ds, column, i) ==
    IF i > Min(Len(ds.rows), SampleLimit) THEN <<>>
    ELSE ds.rows[i][column].c \o Flatten(ds, column, i + 1)

\* chain(*...) raises TypeError on a row that holds None instead of a list
FlattenRaises(ds, column) ==
    \E i \in 1..Min(Len(ds.rows), SampleLimit) : ds.rows[i][column].t # "list"

\* the columns of pd.DataFrame(turns): the keys in order of first appearance
RECURSIVE KeysInOrder(_, _)
KeysInOrder(turns, seen) ==
    IF Len(turns) = 0 THEN seen
    ELSE LET New(e) == ~(\E j \in DOMAIN seen : seen[j] = e)
             ks == [j \in DOMAIN Head(turns) |-> Head(turns)[j].k]
         IN KeysInOrder(Tail(turns), seen \o SelectSeq(ks, New))

\* conv_df[key].nunique(): the number of distinct values that are not None
NUnique(turns, key) ==
    Cardinality({DictGet(turns[i], key) : i \in {j \in DOMAIN turns : DictHas(turns[j], key)}}
                    \ {Null})

\* safe_getitem(list, 0): the first element or None
FirstOrNone(s) == IF Len(s) = 0 THEN None ELSE s[1]

\* the last key with one to three distinct values, not the first
LastFewKey(turns) ==
    LET Few(k) == NUnique(turns, k) \in {1, 2, 3}
        few == SelectSeq(KeysInOrder(turns, <<>>), Few)
    IN IF Len(few) = 0 THEN None ELSE few[Len(few)]

\* the role key chosen by _get_role_and_content_key
RoleKeyOf(turns) ==
    LET Few(k) == NUnique(turns, k) \in {1, 2, 3}
    IN FirstOrNone(SelectSeq(KeysInOrder(turns, <<>>), Few))

\* the content key: the last of the remaining keys after an ascending
\* (stable) sort by nunique, None when the role key is None
ContentKeyOf(turns) ==
    LET role_key == RoleKeyOf(turns)
        Other(k) == k # role_key
        rest == SelectSeq(KeysInOrder(turns, <<>>), Other)
    IN IF role_key = None \/ Len(rest) = 0 THEN None
       ELSE rest[CHOOSE i \in DOMAIN rest :
                    \A j \in DOMAIN rest :
                        \/ NUnique(turns, rest[j]) < NUnique(turns, rest[i])
                        \/ (NUnique(turns, rest[j]) = NUnique(turns, rest[i]) /\ j <= i)]

\* _get_role_and_content_key
_get_role_and_content_key(turns) == <<RoleKeyOf(turns), ContentKeyOf(turns)>>

\* roles_df: the cell at (row i, position p) after
\* roles_df.map(lambda x: (x or {}).get(role_key))
RoleAt(ds, column, role_key, i, p) ==
    LET conv == ds.rows[i][column].c
    IN IF p > Len(conv) THEN Null
       ELSE IF DictHas(conv[p], role_key) THEN DictGet(conv[p], role_key)
       ELSE Null

\* roles_df.columns.nunique(): the length of the longest conversation
NumPositions(ds, column) ==
    LET lens == {Len(ds.rows[i][column].c) : i \in DOMAIN ds.rows}
    IN CHOOSE n \in lens : \A m \in lens : m <= n

\* roles_df[[0 .. n-1]].value_counts(): count of each combination of the
\* first n positions over the rows where none of them is None
Combos(ds, column, role_key, n) ==
    {[p \in 1..n |-> RoleAt(ds, column, role_key, i, p)] :
        i \in {j \in DOMAIN ds.rows :
                 \A p \in 1..n : RoleAt(ds, column, role_key, j, p) # Null}}

ComboCount(ds, column, role_key, n, combo) ==
    Cardinality({i \in DOMAIN ds.rows :
                    \A p \in 1..n : RoleAt(ds, column, role_key, i, p) = combo[p]})

\* the combinations that can stand last after the ascending sort by count:
\* those of maximal count (the order among equal counts is pandas')
MostFrequent(ds, column, role_key, n, cands) ==
    {c \in cands : \A d \in cands :
        ComboCount(ds, column, role_key, n, d) <= ComboCount(ds, column, role_key, n, c)}

PairwiseDistinct(c) == c[1] # c[2] /\ c[2] # c[3] /\ c[1] # c[3]

\* the dict {k1: v1, k2: v2, ...} written as a literal: a repeated key
\* takes its last value
DictLiteral(pairs) ==
    [k \in {pairs[i][1] : i \in DOMAIN pairs} |->
        pairs[CHOOSE i \in DOMAIN pairs :
                 pairs[i][1] = k /\ \A j \in DOMAIN pairs : pairs[j][1] = k => j <= i][2]]

EmptyMap == [k \in {} |-> SYSTEM]

\* ConversationalFormat._get_conv_roles: the set of results the call can
\* give, each [exc, roles_map]; .iloc[-1] of an empty frame is IndexError
_get_conv_roles(ds, column, role_key, has_system) ==
    LET n == NumPositions(ds, column)
    IN IF has_system /\ n >= 3
       THEN LET cands == {c \in Combos(ds, column, role_key, 3) : PairwiseDistinct(c)}
            IN IF cands = {} THEN {[exc |-> "IndexError", roles_map |-> EmptyMap]}
               ELSE {[exc |-> "none",
                      roles_map |-> DictLiteral(<< <<c[1], SYSTEM>>, <<c[2], USER>>,
                                                   <<c[3], ASSISTANT>> >>)] :
                        c \in MostFrequent(ds, column, role_key, 3, cands)}
       ELSE IF n = 2
       THEN LET cands == Combos(ds, column, role_key, 2)
            IN IF cands = {} THEN {[exc |-> "IndexError", roles_map |-> EmptyMap]}
               ELSE {[exc |-> "none",
                      roles_map |-> DictLiteral(<< <<c[1], USER>>, <<c[2], ASSISTANT>> >>)] :
                        c \in MostFrequent(ds, column, role_key, 2, cands)}
       ELSE IF n = 1
       THEN {[exc |-> "none",
              roles_map |-> DictLiteral(<< <<RoleAt(ds, column, role_key, 1, 1), USER>> >>)]}
       ELSE {[exc |-> "none", roles_map |-> EmptyMap]}

\* ConvProps(column, role_key, content_key, has_system, roles_map)
ConvProps(column, role_key, content_key, has_system, roles_map) ==
    [column |-> column, role_key |-> role_key, content_key |-> content_key,
     has_system |-> has_system, roles_map |-> roles_map]

\* ConvProps.is_valid
is_valid(cp) ==
    ~(DOMAIN cp.roles_map = {} \/ cp.role_key = None \/ cp.content_key = None)

\* ConversationalFormat._get_conv_prop: the set of results, each
\* [exc, prop]; conv_df[None] is KeyError when no role key was found
_get_conv_prop(ds, column) ==
    IF FlattenRaises(ds, column)
    THEN {[exc |-> "TypeError", prop |-> ConvProps(column, None, None, FALSE, EmptyMap)]}
    ELSE LET turns == Flatten(ds, column, 1)
             keys == _get_role_and_content_key(turns)
         IN IF keys[1] = None
            THEN {[exc |-> "KeyError", prop |-> ConvProps(column, None, None, FALSE, EmptyMap)]}
            ELSE LET has_system == NUnique(turns, keys[1]) = 3
                 IN {[exc |-> r.exc,
                      prop |-> ConvProps(column, keys[1], keys[2], has_system, r.roles_map)] :
                        r \in _get_conv_roles(ds, column, keys[1], has_system)}

\* ConversationalFormat.get_conv_props over the conversation columns
\* cols[i..]: the set of outcomes [exc, props]; the first column whose
\* _get_conv_prop raises ends the call, invalid properties are dropped
RECURSIVE ConvPropsFrom(_, _, _)
ConvPropsFrom(ds, cols, i) ==
    IF i > Len(cols) THEN {[exc |-> "none", props |-> <<>>]}
    ELSE UNION {
           IF r.exc # "none" THEN {[exc |-> r.exc, props |-> <<>>]}
           ELSE {[exc |-> rest.exc,
                  props |-> IF rest.exc # "none" THEN <<>>
                            ELSE IF is_valid(r.prop) THEN <<r.prop>> \o rest.props
                            ELSE rest.props] :
                    rest \in ConvPropsFrom(ds, cols, i + 1)} :
           r \in _get_conv_prop(ds, cols[i])}

get_conv_props(ds, rnd_ix) == ConvPropsFrom(ds, get_conv_columns(ds, rnd_ix), 1)

\* ConvProps.standardize raises: iterating None is TypeError, a raw role
\* value missing from roles_map (or a missing key) is KeyError
StandardizeExc(cp, conv) ==
    IF ~is_valid(cp) THEN "none"
    ELSE IF conv.t # "list" THEN "TypeError"
    ELSE IF \E i \in DOMAIN conv.c :
               \/ ~DictHas(conv.c[i], cp.role_key)
               \/ ~DictHas(conv.c[i], cp.content_key)
               \/ DictGet(conv.c[i], cp.role_key) \notin DOMAIN cp.roles_map
         THEN "KeyError"
    ELSE "none"

\* ConvProps.standardize (where it does not raise)
standardize(cp, conv) ==
    IF ~is_valid(cp) THEN conv
    ELSE List([i \in DOMAIN conv.c |->
                 Msg(cp.roles_map[DictGet(conv.c[i], cp.role_key)],
                     DictGet(conv.c[i], cp.content_key))])

\* the destination column of a conversation column in _format
ConvDest(conv_props, cp) == IF Len(conv_props) = 1 THEN "messages" ELSE cp.column

\* the loop of ConversationalFormat._format from property i on: [exc, ds]
RECURSIVE ConvFormatFrom(_, _, _)
ConvFormatFrom(ds, conv_props, i) ==
    IF i > Len(conv_props) THEN [exc |-> "none", ds |-> ds]
    ELSE LET cp == conv_props[i]
             bad == {r \in DOMAIN ds.rows : StandardizeExc(cp, ds.rows[r][cp.column]) # "none"}
         IN IF bad # {}
            THEN [exc |-> StandardizeExc(cp, ds.rows[CHOOSE r \in bad : \A q \in bad : r <= q][cp.column]),
                  ds |-> ds]
            ELSE ConvFormatFrom(
                    MapColumn(ds, ConvDest(conv_props, cp),
                              [r \in DOMAIN ds.rows |-> standardize(cp, ds.rows[r][cp.column])]),
                    conv_props, i + 1)

\* ConversationalFormat._format: [exc, ds]
Conv_format(ds, conv_props) == ConvFormatFrom(ds, conv_props, 1)

\* the columns _format adds to messages_cols
Conv_messages_cols(conv_props) ==
    {ConvDest(conv_props, conv_props[i]) : i \in DOMAIN conv_props}

----------------------------------------------------------------------------
(* app/helpers/text_utils.py.  A template is the sequence of its tokens   *)
(* as re.sub(curly_word_pattern, ...) splits it: a "{name}" placeholder   *)
(* (name made of \w characters, possibly empty) or one literal character. *)

PlaceholderName ==
    ("{system}" :> SYSTEM) @@ ("{user}" :> USER) @@ ("{assistant}" :> ASSISTANT) @@
    ("{name}" :> "name") @@ ("{}" :> "")

IsPlaceholder(tok) == tok \in DOMAIN PlaceholderName

\* the group names of the regex, in template order
GroupNames(template) ==
    LET names == [i \in DOMAIN template |->
                     IF IsPlaceholder(template[i]) THEN PlaceholderName[template[i]] ELSE ""]
    IN SelectSeq(names, LAMBDA n : n # "")

\* re.match of the tokens template[t..] at position pos of text, each
\* placeholder being the greedy group (?P<name>.+) under re.DOTALL and the
\* regex ending in ".*": [ok, caps], caps the <<start, length>> of the
\* groups in order, found in the order the backtracking matcher tries them
RECURSIVE MatchFrom(_, _, _, _), TryLen(_, _, _, _, _)
MatchFrom(template, text, t, pos) ==
    IF t > Len(template) THEN [ok |-> TRUE, caps |-> <<>>]
    ELSE IF IsPlaceholder(template[t])
         THEN TryLen(template, text, t, pos, Len(text) - pos + 1)
    ELSE IF pos <= Len(text) /\ text[pos] = template[t]
         THEN MatchFrom(template, text, t + 1, pos + 1)
    ELSE [ok |-> FALSE, caps |-> <<>>]

TryLen(template, text, t, pos, n) ==
    IF n < 1 THEN [ok |-> FALSE, caps |-> <<>>]
    ELSE LET r == MatchFrom(template, text, t + 1, pos + n)
         IN IF r.ok THEN [ok |-> TRUE, caps |-> <<<<pos, n>>>> \o r.caps]
            ELSE TryLen(template, text, t, pos, n - 1)

\* the match tried at the start of the text only
MatchAtStart(template, text, p) == MatchFrom(template, text, 1, 1)

\* the leading greedy ".*": the longest skipped prefix p that lets the
\* rest match
RECURSIVE TryPrefix(_, _, _)
TryPrefix(template, text, p) ==
    IF p < 0 THEN [ok |-> FALSE, caps |-> <<>>]
    ELSE LET r == MatchFrom(template, text, 1, p + 1)
         IN IF r.ok THEN r ELSE TryPrefix(template, text, p - 1)

\* TextUtils.parse_to_dict(template, formatted_text): [exc, dict]; the
\* dict is match.groupdict(), {} when there is no match.  An unnamed {}
\* is ValueError, a repeated group name is re.error, a formatted_text
\* that is not a string is TypeError
parse_to_dict(template, cell) ==
    LET names == GroupNames(template)
    IN IF \E i \in DOMAIN template : template[i] = "{}"
       THEN [exc |-> "ValueError", dict |-> <<>>]
       ELSE IF \E i, j \in DOMAIN names : i # j /\ names[i] = names[j]
       THEN [exc |-> "re.error", dict |-> <<>>]
       ELSE IF cell.t # "str"
       THEN [exc |-> "TypeError", dict |-> <<>>]
       ELSE LET r == TryPrefix(template, cell.s, Len(cell.s))
            IN IF ~r.ok THEN [exc |-> "none", dict |-> <<>>]
               ELSE [exc |-> "none",
                     dict |-> [i \in DOMAIN names |->
                                 Item(names[i],
                                      Str(SubSeq(cell.s, r.caps[i][1],
                                                 r.caps[i][1] + r.caps[i][2] - 1)))]]

----------------------------------------------------------------------------
(* app/format/conv_text.py *)

\* ConversationalTextFormat.try_parsing_to_dict: {} on any exception, also
\* on Role(k) of a name that is no role
try_parsing_to_dict(template, cell) ==
    LET r == parse_to_dict(template, cell)
    IN IF r.exc # "none" THEN <<>>
       ELSE IF \E i \in DOMAIN r.dict : r.dict[i].k \notin MessageRole THEN <<>>
       ELSE r.dict

\* the parsed items left in the order of the template
KeepTemplateOrder(d) == d

\* sorted(items, key=roles_ordered.index) of at most three items with
\* distinct role keys
SortByRole(d) ==
    LET Has(r) == \E i \in DOMAIN d : d[i].k = r
        roles == SelectSeq(<<SYSTEM, USER, ASSISTANT>>, Has)
    IN [i \in DOMAIN roles |-> Item(roles[i], DictGet(d, roles[i]))]

\* ConversationalTextFormat._create_messages_from_template: [exc, messages]
_create_messages_from_template(template, cell) ==
    LET r == parse_to_dict(template, cell)
    IN IF r.exc # "none" THEN [exc |-> r.exc, messages |-> <<>>]
       ELSE IF \E i \in DOMAIN r.dict : r.dict[i].k \notin MessageRole
       THEN [exc |-> "ValueError", messages |-> <<>>]
       ELSE LET parsed == SortByRole(r.dict)
            IN [exc |-> "none",
                messages |-> [i \in DOMAIN parsed |->
                                <<Item(ROLE, Str(Chars[parsed[i].k])),
                                  Item(CONTENT, parsed[i].val)>>]]

\* template.replace("{system}", "{user}")
ReplaceSystem(template) ==
    [i \in DOMAIN template |-> IF template[i] = "{system}" THEN "{user}" ELSE template[i]]

\* the role sets a parsed proposal must have to be accepted
AcceptedRoleSets == {{SYSTEM, USER, ASSISTANT}, {USER, ASSISTANT}, {SYSTEM, ASSISTANT}}

\* a proposal is kept when it parses the sample value into an accepted set
Accepted(template, cell) ==
    LET d == try_parsing_to_dict(template, cell)
    IN d # <<>> /\ DictKeys(d) \in AcceptedRoleSets

\* the template stored for an accepted proposal
StoredTemplate(template, cell) ==
    IF DictKeys(try_parsing_to_dict(template, cell)) = {SYSTEM, ASSISTANT}
    THEN ReplaceSystem(template) ELSE template

\* n=5 completions asked of the judge per candidate column, n=2 for the
\* candidate columns themselves
NumProposals == 5
NumKeyChoices == 2

\* the templates the judge model can propose in this model
TemplatePool ==
    { <<"Q", ":", "{user}", " ", "A", ":", "{assistant}">>,
      <<"A", ":", "{assistant}", " ", "Q", ":", "{user}">>,
      <<"Q", ":", "{system}", " ", "A", ":", "{assistant}">>,
      <<"Q", ":", "{user}">>,
      <<"Q", ":", "{}">> }

\* ConversationalTextFormatConfig(column, conv_template); a conv_template
\* of None is the empty template
ConversationalTextFormatConfig(column, conv_template) ==
    [column |-> column, conv_template |-> conv_template]

\* conv_col_keys of _get_col_template_map: the outcomes [exc, keys].  The
\* judge answers with NumKeyChoices completions of which those naming a
\* key of dict_repr are kept; a filtered response (None) is TypeError
ConvColKeys(ds, ctc) ==
    IF ctc.column # None /\ ctc.column # ""
    THEN {[exc |-> "none", keys |-> {ctc.column}]}
    ELSE {[exc |-> "TypeError", keys |-> {}]}
           \cup {[exc |-> "none", keys |-> K] :
                    K \in {S \in SUBSET ColSet(ds) : Cardinality(S) <= NumKeyChoices}}

\* the proposals for one candidate column: the outcomes [exc, templates];
\* a judge call that raised comes back from run_parallel_exec as the
\* exception itself, and set(exception) is TypeError
ProposalsFor(ctc, keys) ==
    IF ctc.conv_template # <<>> /\ ctc.column \in keys
    THEN {[exc |-> "none", templates |-> {ctc.conv_template}]}
    ELSE {[exc |-> "TypeError", templates |-> {}]}
           \cup {[exc |-> "none", templates |-> P] :
                    P \in {S \in SUBSET TemplatePool :
                             S # {} /\ Cardinality(S) <= NumProposals}}

EmptyTemplateMap == [k \in {} |-> <<>>]

\* the dict comprehensions of _get_col_template_map over the candidate
\* items[i..]: the outcomes [exc, map]; of several accepted proposals of a
\* column the one iterated last (set order) is stored
RECURSIVE TemplateMapFrom(_, _, _, _, _)
TemplateMapFrom(row, ctc, keys, items, i) ==
    IF i > Len(items) THEN {[exc |-> "none", map |-> EmptyTemplateMap]}
    ELSE UNION {
           IF p.exc # "none" THEN {[exc |-> p.exc, map |-> EmptyTemplateMap]}
           ELSE LET acc == {StoredTemplate(t, row[items[i]]) :
                               t \in {u \in p.templates : Accepted(u, row[items[i]])}}
                IN {[exc |-> rest.exc,
                     map |-> IF rest.exc # "none" THEN EmptyTemplateMap
                             ELSE IF c = <<>> THEN rest.map
                             ELSE (items[i] :> c) @@ rest.map] :
                       rest \in TemplateMapFrom(row, ctc, keys, items, i + 1),
                       c \in IF acc = {} THEN {<<>>} ELSE acc} :
           p \in ProposalsFor(ctc, keys)}

\* ConversationalTextFormat._get_col_template_map on the sample record
_get_col_template_map(ds, rnd_ix, ctc) ==
    UNION {
      IF k.exc # "none" THEN {[exc |-> k.exc, map |-> EmptyTemplateMap]}
      ELSE LET IsCandidate(c) == ds.rows[rnd_ix][c].t = "str" /\ c \in k.keys
           IN TemplateMapFrom(ds.rows[rnd_ix], ctc, k.keys, SelectSeq(ds.cols, IsCandidate), 1) :
      k \in ConvColKeys(ds, ctc)}

\* the dataset.map of ConversationalTextFormat._format: [exc, ds]
ConvText_apply(ds, map) ==
    LET Res(r, c) == _create_messages_from_template(map[c], ds.rows[r][c])
        bad == {<<r, c>> \in (DOMAIN ds.rows) \X (DOMAIN map) : Res(r, c).exc # "none"}
    IN IF bad # {}
       THEN [exc |-> LET first == CHOOSE b \in bad : \A q \in bad : b[1] <= q[1]
                     IN Res(first[1], first[2]).exc,
             ds |-> ds]
       ELSE [exc |-> "none",
             ds |-> [cols |-> ds.cols,
                     rows |-> [r \in DOMAIN ds.rows |->
                                 [c \in ColSet(ds) |->
                                     IF c \in DOMAIN map THEN List(Res(r, c).messages)
                                     ELSE ds.rows[r][c]]]]]

----------------------------------------------------------------------------
(* app/format/__init__.py: FormatConfig and the inputs of the model *)

\* MergerFormatConfig()
MergerFormatConfig ==
    [system |-> FieldConfig(TRUE, <<>>, Chars[" "], SYSTEM),
     user |-> FieldConfig(TRUE, <<>>, Chars[" "], USER),
     assistant |-> FieldConfig(TRUE, <<>>, Chars[" "], ASSISTANT),
     remove_other_cols |-> FALSE]

\* ConversationalFormatConfig()
ConvConfig == [is_none |-> FALSE]

\* FormatConfig(): conv_text is None by default
FormatConfig ==
    [merger |-> MergerFormatConfig, sft |-> SFTConfig, conv_text |-> NoneCfg,
     conv |-> ConvConfig, dpo |-> DPOConfig, output |-> OutputConfig]

StageFields == {"merger", "sft", "conv_text", "conv", "dpo", "output"}

TemplateQA == <<"Q", ":", "{user}", " ", "A", ":", "{assistant}">>
TemplateAQ == <<"A", ":", "{assistant}", " ", "Q", ":", "{user}">>

\* merger configurations given by a caller: question/answer merged into
\* the user/assistant columns, the sources removed; and question and
\* answer joined into one column named by default
MergerRename ==
    [MergerFormatConfig EXCEPT
        !.user = FieldConfig(FALSE, <<"question">>, Chars[" "], USER),
        !.assistant = FieldConfig(FALSE, <<"answer">>, Chars[" "], ASSISTANT),
        !.remove_other_cols = TRUE]

MergerJoin ==
    [MergerFormatConfig EXCEPT
        !.user = FieldConfig(FALSE, <<"question", "answer">>, Chars[" "], None)]

\* the user group writes its join over the column question, which the
\* assistant group, applied after it, lists as a source
MergerInPlace ==
    [MergerFormatConfig EXCEPT
        !.user = FieldConfig(FALSE, <<"answer", "question">>, Chars[" "], "question"),
        !.assistant = FieldConfig(FALSE, <<"question">>, Chars[" "], ASSISTANT)]

\* MergerRename with one, two or all three of its groups set to None
MergerGroupsAbsent ==
    {[g \in {"system", "user", "assistant", "remove_other_cols"} |->
         IF g \in absent THEN NoneCfg ELSE MergerRename[g]] :
        absent \in (SUBSET {"system", "user", "assistant"}) \ {{}}}

ConvTextConfigs ==
    { ConversationalTextFormatConfig("text", TemplateQA),
      ConversationalTextFormatConfig("text", TemplateAQ),
      ConversationalTextFormatConfig("text", <<>>),
      ConversationalTextFormatConfig(None, <<>>) }

\* the configurations Format is run with: the default one with and
\* without return_only_messages, one stage set to None, a configured
\* merger, a configured conv_text
DefaultConfigs ==
    {[FormatConfig EXCEPT !.output = [return_only_messages |-> r]] : r \in BOOLEAN}
AbsentConfigs == {[FormatConfig EXCEPT ![f] = NoneCfg] : f \in StageFields}
MergerConfigs == {[FormatConfig EXCEPT !.merger = m] : m \in {MergerRename, MergerJoin, MergerInPlace}}
TextConfigs ==
    {[FormatConfig EXCEPT !.conv_text = c, !.output = [return_only_messages |-> r]] :
        c \in ConvTextConfigs, r \in BOOLEAN}

S(x) == Str(Chars[x])

\* the values of one column, row by row
StrColumns == [1..NumRows -> {S("hi"), S("yo")}]
NumColumn == [i \in 1..NumRows |-> Num(Chars["42"])]
NullFirst == [i \in 1..NumRows |-> IF i = 1 THEN Null ELSE S("hi")]
ScalarColumns == StrColumns \cup {NumColumn, NullFirst}
FixedColumns == {[i \in 1..NumRows |-> S("hi")]}
TextColumns ==
    [1..NumRows -> {S("Q:hi A:yo"), S("A:yo Q:hi")}]
      \cup {[i \in 1..NumRows |-> IF i = 1 THEN S("Q:hi A:yo") ELSE S("hi")],
            [i \in 1..NumRows |-> IF i = 1 THEN S("Q:hi A:yo") ELSE Null]}

\* raw role values of the turns of one conversation
RoleSeqs ==
    { <<"human", "gpt">>, <<"gpt", "human">>, <<"sys", "human", "gpt">>,
      <<"human", "gpt", "human">>, <<"sys", "human", "sys">>, <<"human">>,
      <<"sys", "tool">> }

Digit == <<"1", "2", "3", "4">>

\* the content of turn p of row r: all different, all the same, or None
ContentOf(scheme, r, p) ==
    CASE scheme = "distinct" -> Str(<<"c", Digit[r], Digit[p]>>)
      [] scheme = "same" -> S("hi")
      [] scheme = "none" -> Null

\* one turn dict under a key naming scheme
TurnOf(keys, role, content) ==
    CASE keys = "from_value" -> <<Item("from", S(role)), Item("value", content)>>
      [] keys = "value_from" -> <<Item("value", content), Item("from", S(role))>>
      [] keys = "role_content" -> <<Item(ROLE, S(role)), Item(CONTENT, content)>>

\* a conversation column: the odd rows have the role sequence a, the
\* even rows the role sequence b
ConvColumn(keys, scheme, a, b) ==
    [r \in 1..NumRows |->
        LET roles == IF r % 2 = 1 THEN a ELSE b
        IN List([p \in DOMAIN roles |-> TurnOf(keys, roles[p], ContentOf(scheme, r, p))])]

KeySchemes ==
    { <<"from_value", "distinct">>, <<"from_value", "same">>, <<"from_value", "none">>,
      <<"value_from", "distinct">>, <<"role_content", "distinct">> }

ConvColumns ==
    {ConvColumn(ks[1], ks[2], a, b) : ks \in KeySchemes, a \in RoleSeqs, b \in RoleSeqs}

SmallConvColumns ==
    {ConvColumn("from_value", "distinct", a, b) :
        a \in {<<"human", "gpt">>, <<"gpt", "human">>},
        b \in {<<"human", "gpt">>, <<"gpt", "human">>}}

\* conversations whose turns all have the same content, so that the first
\* and the third turn of a three-turn conversation are equal
RepeatConvColumns ==
    {ConvColumn("from_value", "same", a, b) :
        a \in {<<"human", "gpt", "human">>, <<"human", "gpt">>},
        b \in {<<"human", "gpt", "human">>, <<"human", "gpt">>}}

\* two-turn conversations in which both turns may come from one speaker
SameSpeakerConvColumns ==
    {ConvColumn("from_value", "distinct", a, b) :
        a \in {<<"human", "human">>, <<"human", "gpt">>},
        b \in {<<"human", "human">>, <<"human", "gpt">>}}

Pool(kind) ==
    CASE kind = "scalar" -> ScalarColumns
      [] kind = "fixed" -> FixedColumns
      [] kind = "num" -> {NumColumn}
      [] kind = "text" -> TextColumns
      [] kind = "conv" -> ConvColumns
      [] kind = "smallconv" -> SmallConvColumns
      [] kind = "repeatconv" -> RepeatConvColumns
      [] kind = "samespeaker" -> SameSpeakerConvColumns

\* the column layouts of the input datasets: <<name, kind of values>>
FlatLayout == << <<"question", "scalar">>, <<"answer", "scalar">> >>
PairLayout == << <<"prompt", "scalar">>, <<"chosen", "scalar">>, <<"rejected", "fixed">> >>
TwoConvLayout == << <<"conversations", "smallconv">>, <<"messages", "smallconv">> >>
TextLayout == << <<"id", "num">>, <<"text", "text">> >>

Layouts ==
    { FlatLayout, PairLayout, TwoConvLayout, TextLayout,
      << <<"system_prompt", "fixed">>, <<"Human", "scalar">>, <<"response", "fixed">> >>,
      << <<"prompt", "fixed">>, <<"response", "fixed">>, <<"chosen", "scalar">>,
         <<"rejected", "fixed">> >>,
      << <<"conversations", "conv">> >>,
      << <<"prompt", "smallconv">>, <<"chosen", "scalar">>, <<"rejected", "fixed">> >>,
      << <<"prompt", "repeatconv">>, <<"chosen", "scalar">>, <<"rejected", "fixed">> >>,
      << <<"conversations", "samespeaker">> >> }

EmptyFn == [k \in {} |-> <<>>]

\* every choice of values for the columns layout[i..]
RECURSIVE ColumnChoices(_, _)
ColumnChoices(layout, i) ==
    IF i > Len(layout) THEN {EmptyFn}
    ELSE {(layout[i][1] :> v) @@ rest :
             v \in Pool(layout[i][2]), rest \in ColumnChoices(layout, i + 1)}

DatasetOf(layout, f) ==
    [cols |-> [i \in DOMAIN layout |-> layout[i][1]],
     rows |-> [r \in 1..NumRows |-> [c \in DOMAIN f |-> f[c][r]]]]

DatasetsOf(layouts) ==
    UNION {{DatasetOf(layout, f) : f \in ColumnChoices(layout, 1)} : layout \in layouts}

\* the runs of the model: <<configuration, input dataset>>
Inputs ==
    (DefaultConfigs \X DatasetsOf(Layouts))
      \cup (AbsentConfigs \X DatasetsOf({FlatLayout, PairLayout, TwoConvLayout}))
      \cup (MergerConfigs \X DatasetsOf({FlatLayout, PairLayout, TextLayout}))
      \cup (TextConfigs \X DatasetsOf({TextLayout}))
      \cup ({[FormatConfig EXCEPT !.merger = m] : m \in MergerGroupsAbsent}
               \X DatasetsOf({FlatLayout}))

----------------------------------------------------------------------------
(* app/format/base.py and Format.format: the chain                        *)
(*   merger(dataset) | sft | conv_text | conv | dpo | output              *)
(* One action per step of the chain: BaseFormat.__or__ calls format() of  *)
(* the head instance, constructs the next stage on the result, reads      *)
(* is_this_format of the head and hands formats and messages_cols on.     *)

StageNames == {"Merger", "SFT", "ConversationalText", "Conversational", "DPO", "Output"}

EmptyDs == [cols |-> <<>>, rows |-> <<>>]
EmptyColMap == [k \in {} |-> ""]
NoRaise == [exc |-> "none", at |-> ""]
NoResult == [exc |-> "none", dict |-> <<>>]

\* no call of parse_to_dict is under way
ParseIdle ==
    /\ p_pc = "idle"
    /\ p_template = <<>>
    /\ p_text = Null
    /\ p_result = NoResult

\* the credentials of llm["v4"]["128k"]: the one entry of the "150k" list
\* and the entries of the "80k" list, each named by its list and index
NumKeys80k == 5
Key150k == [list |-> "150k", ix |-> 0]
Key80k(i) == [list |-> "80k", ix |-> i]
Credentials == {Key150k} \cup {Key80k(i) : i \in 0..(NumKeys80k - 1)}

Threads == 1..NumThreads
NoKey == [round |-> -1, api |-> [list |-> "", ix |-> -1]]

\* call_openai.py as imported: round 0, the "150k" credential, no call of
\* choosed_gpt4_key under way
KeysIdle ==
    /\ last_gpt4_choosed_key = [round |-> 0, api |-> Key150k]
    /\ k_pc = [t \in Threads |-> "idle"]
    /\ k_calls = [t \in Threads |-> 0]
    /\ k_branch = [t \in Threads |-> 0]
    /\ k_round = [t \in Threads |-> -1]
    /\ current_choosed_key = [t \in Threads |-> NoKey]

NoOut == [role_col_map |-> EmptyColMap, sft |-> FALSE, dpo |-> FALSE]

\* no call of run_parallel_exec is under way
NoData == [exc |-> "pending", val |-> ""]
NoOutcome == [exc |-> "none", value |-> <<>>]
ParIdle ==
    /\ x_caller = "idle"
    /\ x_items = <<>>
    /\ x_pending = {}
    /\ x_tries = <<>>
    /\ x_computed = <<>>
    /\ x_result = <<>>
    /\ x_pc = "idle"
    /\ x_out = NoOutcome

\* no call of call_openai_api is under way
CallIdle ==
    /\ c_caller = "idle"
    /\ c_pc = "idle"
    /\ c_error = <<>>
    /\ c_slept = 0
    /\ c_attempts = 0

\* Job.run is not saving
SaveIdle ==
    /\ s_data = <<>>
    /\ s_filename = <<>>
    /\ s_pc = <<>>
    /\ s_files = {}

RunIdle == ParIdle /\ CallIdle /\ SaveIdle

\* BaseFormat.__init__ with rnd_ix = randint(0, len(dataset) - 1); the
\* attributes the subclasses add start empty
NewInst(ix) ==
    [rnd_ix |-> ix, role_col_map |-> EmptyColMap, col_map |-> EmptyColMap,
     conv_props |-> <<>>, _is_this_format |-> FALSE]

NotRun == [ran |-> FALSE, input |-> EmptyDs, output |-> EmptyDs, applied |-> FALSE]
Ran(in, out, applied) == [ran |-> TRUE, input |-> in, output |-> out, applied |-> applied]

\* an exception leaves Format.format
Raise(exc) ==
    /\ pc' = "raised"
    /\ raised' = [exc |-> exc, at |-> pc]
    /\ UNCHANGED <<cfg, dataset, inst, formats, messages_cols, hist>>

\* __or__ without the test of is_this_format: every stage is recorded
HandoverAlways(name, applied, out, next, new_inst, new_cols) ==
    /\ pc' = next
    /\ dataset' = out
    /\ inst' = new_inst
    /\ formats' = <<name>> \o formats
    /\ messages_cols' = messages_cols \cup new_cols
    /\ hist' = [hist EXCEPT ![name] = Ran(dataset, out, applied)]
    /\ raised' = raised

\* BaseFormat.__or__ after format() and the constructor of the next stage
\* succeeded: name is format_name of the head, applied its is_this_format
Handover(name, applied, out, next, new_inst, new_cols) ==
    /\ pc' = next
    /\ dataset' = out
    /\ inst' = new_inst
    /\ formats' = IF applied THEN <<name>> \o formats ELSE formats
    /\ messages_cols' = messages_cols \cup new_cols
    /\ hist' = [hist EXCEPT ![name] = Ran(dataset, out, applied)]
    /\ raised' = raised

\* MergerFormat.format(): [exc, ds, config]
Merger_format(ds, mc) ==
    IF IsNone(mc) THEN [exc |-> "none", ds |-> ds, config |-> mc]
    ELSE LET it == Merger_is_this_format(ds, mc)
         IN IF it = "AttributeError" THEN [exc |-> it, ds |-> ds, config |-> mc]
            ELSE IF it = "True"
            THEN [exc |-> "none", ds |-> Merger_apply(ds, mc), config |-> MergerConfigAfter(mc)]
            ELSE [exc |-> "none", ds |-> ds, config |-> mc]

\* is_this_format of the Merger as __or__ reads it: self.config.system of
\* a config that is None is AttributeError
Merger_applied(ds, mc) ==
    IF IsNone(mc) THEN "AttributeError" ELSE Merger_is_this_format(ds, mc)

\* SFTFormat.__init__: self.config.column_role_map of None is AttributeError
SFT_init(ds, sc) ==
    IF IsNone(sc) THEN [exc |-> "AttributeError", role_col_map |-> EmptyColMap]
    ELSE [exc |-> "none", role_col_map |-> GetRoleColMap(sc.column_role_map, ds.cols)]

\* DPOFormat.__init__
DPO_init(ds, dc) ==
    IF IsNone(dc) THEN [exc |-> "AttributeError", col_map |-> EmptyColMap]
    ELSE [exc |-> "none", col_map |-> GetRoleColMap(dc.column_role_map, ds.cols)]

\* DPOFormat._format: [exc, ds]
DPO_format(ds, col_map, rnd_ix) ==
    LET conv_cols == get_conv_columns(ds, rnd_ix)
    IN IF ~DPO_is_this_format(col_map) THEN [exc |-> "none", ds |-> ds]
       ELSE IF \E r \in DOMAIN ds.rows : DPORowRaises(ds.rows[r], col_map, conv_cols)
       THEN [exc |-> "TypeError", ds |-> ds]
       ELSE [exc |-> "none", ds |-> DPO_apply(ds, col_map, conv_cols)]

\* Format._base_chain: self.merger(self.dataset)
NewMerger ==
    /\ pc = "start"
    /\ \E ix \in DOMAIN dataset.rows : inst' = NewInst(ix)
    /\ pc' = "merger"
    /\ UNCHANGED <<cfg, dataset, formats, messages_cols, raised, hist>>

\* merger | self.sft
OrSft ==
    /\ pc = "merger"
    /\ \E ix \in DOMAIN dataset.rows :
         LET f == Merger_format(dataset, cfg.merger)
             c == SFT_init(f.ds, cfg.sft)
             it == Merger_applied(dataset, f.config)
         IN IF f.exc # "none" THEN Raise(f.exc) /\ cfg' = cfg
            ELSE IF c.exc # "none" THEN Raise(c.exc) /\ cfg' = cfg
            ELSE IF it = "AttributeError" THEN Raise(it) /\ cfg' = cfg
            ELSE /\ Handover("Merger", it = "True", f.ds, "sft",
                             [NewInst(ix) EXCEPT !.role_col_map = c.role_col_map], {})
                 /\ cfg' = [cfg EXCEPT !.merger = f.config]

\* sft | self.conv_text
OrConvText ==
    /\ pc = "sft"
    /\ cfg' = cfg
    /\ \E ix \in DOMAIN dataset.rows :
         LET applied == SFT_is_this_format(inst.role_col_map)
             out == SFT_format(dataset, inst.role_col_map)
         IN Handover("SFT", applied, out, "conv_text", NewInst(ix),
                     IF applied THEN {"messages"} ELSE {})

\* conv_text | self.conv
OrConv ==
    /\ pc = "conv_text"
    /\ cfg' = cfg
    /\ \E ix \in DOMAIN dataset.rows :
       \E m \in IF IsNone(cfg.conv_text)
                THEN {[exc |-> "none", map |-> EmptyTemplateMap]}
                ELSE _get_col_template_map(dataset, inst.rnd_ix, cfg.conv_text) :
         LET f == IF DOMAIN m.map = {} THEN [exc |-> m.exc, ds |-> dataset]
                  ELSE ConvText_apply(dataset, m.map)
         IN IF f.exc # "none" THEN Raise(f.exc)
            ELSE \E c \in get_conv_props(f.ds, ix) :
                   IF c.exc # "none" THEN Raise(c.exc)
                   ELSE Handover("ConversationalText", DOMAIN m.map # {}, f.ds, "conv",
                                 [NewInst(ix) EXCEPT !.conv_props = c.props], {})

\* conv | self.dpo
OrDpo ==
    /\ pc = "conv"
    /\ cfg' = cfg
    /\ \E ix \in DOMAIN dataset.rows :
         LET f == IF IsNone(cfg.conv) THEN [exc |-> "none", ds |-> dataset]
                  ELSE Conv_format(dataset, inst.conv_props)
             c == DPO_init(f.ds, cfg.dpo)
         IN IF f.exc # "none" THEN Raise(f.exc)
            ELSE IF c.exc # "none" THEN Raise(c.exc)
            ELSE Handover("Conversational", Len(inst.conv_props) > 0, f.ds, "dpo",
                          [NewInst(ix) EXCEPT !.col_map = c.col_map],
                          IF IsNone(cfg.conv) THEN {} ELSE Conv_messages_cols(inst.conv_props))

\* dpo | self.output
OrOutput ==
    /\ pc = "dpo"
    /\ cfg' = cfg
    /\ \E ix \in DOMAIN dataset.rows :
         LET applied == DPO_is_this_format(inst.col_map)
             f == DPO_format(dataset, inst.col_map, inst.rnd_ix)
         IN IF f.exc # "none" THEN Raise(f.exc)
            ELSE Handover("DPO", applied, f.ds, "output", NewInst(ix),
                          IF applied THEN {CHOSEN, REJECTED} ELSE {})

\* chain.format() of the OutputFormat instance: the result of Format.format
FinalFormat ==
    /\ pc = "output"
    /\ pc' = "done"
    /\ dataset' = IF IsNone(cfg.output) THEN dataset
                  ELSE Output_format(dataset, cfg.output, messages_cols)
    /\ hist' = [hist EXCEPT !["Output"] = Ran(dataset, dataset', TRUE)]
    /\ UNCHANGED <<cfg, inst, formats, messages_cols, raised>>

Init ==
    /\ pc = "start"
    /\ \E in \in Inputs : cfg = in[1] /\ dataset = in[2]
    /\ inst = NewInst(1)
    /\ formats = <<>>
    /\ messages_cols = {}
    /\ raised = NoRaise
    /\ hist = [s \in StageNames |-> NotRun]
    /\ b_pc = "idle"
    /\ pattern_role_map = <<>>
    /\ p_r_map = <<>>
    /\ b_cols = <<>>
    /\ b_i = 0
    /\ role_col = <<>>
    /\ b_out = NoOut
    /\ ParseIdle
    /\ KeysIdle
    /\ RunIdle

Next ==
    \/ NewMerger /\ UNCHANGED <<bindVars, parseVars, keyVars, runVars>>
    \/ OrSft /\ UNCHANGED <<bindVars, parseVars, keyVars, runVars>>
    \/ OrConvText /\ UNCHANGED <<bindVars, parseVars, keyVars, runVars>>
    \/ OrConv /\ UNCHANGED <<bindVars, parseVars, keyVars, runVars>>
    \/ OrDpo /\ UNCHANGED <<bindVars, parseVars, keyVars, runVars>>
    \/ OrOutput /\ UNCHANGED <<bindVars, parseVars, keyVars, runVars>>
    \/ FinalFormat /\ UNCHANGED <<bindVars, parseVars, keyVars, runVars>>

Spec == Init /\ [][Next]_vars

----------------------------------------------------------------------------
(* The column walk of SFTFormat._get_role_col_map (regex mode) and of     *)
(* DPOFormat._get_col_map, one iteration per step, over every pattern     *)
(* table of at most MaxPats patterns and every list of at most            *)
(* MaxBindCols columns                                                    *)

BindPats == {"user.*", "input.*", "^prompt.*", "prompt.*"}
BindRoles == {SYSTEM, USER, ASSISTANT}
BindNames == {"system_prompt", "user_input", "Input"}

\* the sequences without repetition over a set, up to a length
DistinctSeqs(set, n) ==
    {q \in UNION {[1..k -> set] : k \in 0..n} :
        \A i, j \in DOMAIN q : i # j => q[i] # q[j]}

DPOBindRoles == {CHOSEN, REJECTED, USER}

BindMaps ==
    {[i \in DOMAIN ps |-> [pat |-> ps[i], role |-> rs[i]]] :
        <<ps, rs>> \in {pr \in DistinctSeqs(BindPats, MaxPats) \X
                               UNION {[1..k -> voc] : k \in 0..MaxPats,
                                                      voc \in {BindRoles, DPOBindRoles}} :
                          Len(pr[1]) = Len(pr[2]) /\ Len(pr[1]) >= 1}}

InitBind ==
    /\ pattern_role_map \in BindMaps
    /\ p_r_map = pattern_role_map
    /\ b_cols \in DistinctSeqs(BindNames, MaxBindCols)
    /\ b_i = 1
    /\ role_col = <<>>
    /\ b_out = NoOut
    /\ ParseIdle
    /\ KeysIdle
    /\ RunIdle
    /\ b_pc = "walk"
    /\ pc = "idle"
    /\ cfg = NoneCfg
    /\ dataset = EmptyDs
    /\ inst = NewInst(1)
    /\ formats = <<>>
    /\ messages_cols = {}
    /\ raised = NoRaise
    /\ hist = [s \in StageNames |-> NotRun]

\* one iteration of "for col in list(data)"
BindStep ==
    /\ b_pc = "walk"
    /\ b_i <= Len(b_cols)
    /\ LET st == BindOne([map |-> p_r_map, rc |-> role_col], b_cols[b_i])
       IN /\ p_r_map' = st.map
          /\ role_col' = st.rc
    /\ b_i' = b_i + 1
    /\ UNCHANGED <<b_pc, pattern_role_map, b_cols, b_out>>
    /\ UNCHANGED <<chainVars, parseVars, keyVars, runVars>>

\* "return dict(role_col)" once the columns are exhausted, and the
\* is_this_format the two detectors compute from the returned dict
BindReturn ==
    /\ b_pc = "walk"
    /\ b_i > Len(b_cols)
    /\ b_pc' = "done"
    /\ b_out' = [role_col_map |-> DictOf(role_col),
                 sft |-> SFT_is_this_format(DictOf(role_col)),
                 dpo |-> DPO_is_this_format(DictOf(role_col))]
    /\ UNCHANGED <<pattern_role_map, p_r_map, b_cols, b_i, role_col>>
    /\ UNCHANGED <<chainVars, parseVars, keyVars, runVars>>

NextBind == BindStep \/ BindReturn

SpecBind == InitBind /\ [][NextBind]_vars

----------------------------------------------------------------------------
(* Properties of the column walk (specification SpecBind)                 *)

\* C3: first-claim-wins column binding.  Walking the columns in order
\* binds each column to at most one role and each role to at most one
\* column; a walked column is bound exactly when one of the patterns of
\* the roles not claimed by an earlier column matches it (re.search,
\* ignoring case), and then to the role of the first such pattern in map
\* order; the lookup table that remains holds no pattern of a claimed role.
C3_FirstClaimWins ==
    b_pc \in {"walk", "done"} =>
      LET IndexOf(col) == CHOOSE j \in DOMAIN b_cols : b_cols[j] = col
          ClaimedBefore(j) ==
              {role_col[k][1] : k \in {k \in DOMAIN role_col : IndexOf(role_col[k][2]) < j}}
          Available(j) ==
              {i \in DOMAIN pattern_role_map :
                  /\ pattern_role_map[i].role \notin ClaimedBefore(j)
                  /\ ReSearch(pattern_role_map[i].pat, b_cols[j])}
          First(set) == CHOOSE i \in set : \A k \in set : i <= k
      IN /\ \A k, l \in DOMAIN role_col :
              k # l => /\ role_col[k][1] # role_col[l][1]
                       /\ role_col[k][2] # role_col[l][2]
         /\ \A k \in DOMAIN role_col :
              \E j \in 1..(b_i - 1) : b_cols[j] = role_col[k][2]
         /\ \A j \in 1..(b_i - 1) :
              IF Available(j) = {}
              THEN \A k \in DOMAIN role_col : role_col[k][2] # b_cols[j]
              ELSE \E k \in DOMAIN role_col :
                     role_col[k] = <<pattern_role_map[First(Available(j))].role, b_cols[j]>>
         /\ \A i \in DOMAIN p_r_map :
              \A k \in DOMAIN role_col : p_r_map[i].role # role_col[k][1]

\* the walk is over, two columns are bound, and a column whose first
\* matching pattern of the whole table belongs to a role claimed by an
\* earlier column was bound through a later pattern to another role
C3_Witness ==
    /\ b_pc = "done"
    /\ Len(role_col) >= 2
    /\ \E k, l \in DOMAIN role_col :
         /\ k < l
         /\ RegexDictGet(pattern_role_map, role_col[l][2]) = role_col[k][1]

----------------------------------------------------------------------------
(* Properties of the chain (specification Spec)                           *)

\* C1: idempotence of detection.  For every detector that applied (SFT,
\* DPO, Conversational, ConversationalText, Merger), constructing the same
\* detector again on the dataset its format() returned gives
\* is_this_format = false, whatever row the new instance samples.
C1_DetectionIdempotent ==
    /\ (hist["Merger"].ran /\ hist["Merger"].applied) =>
          Merger_is_this_format(hist["Merger"].output, cfg.merger) # "True"
    /\ (hist["SFT"].ran /\ hist["SFT"].applied) =>
          ~SFT_is_this_format(
              GetRoleColMap(cfg.sft.column_role_map, hist["SFT"].output.cols))
    /\ (hist["ConversationalText"].ran /\ hist["ConversationalText"].applied) =>
          \A ix \in 1..NumRows :
             \A m \in _get_col_template_map(hist["ConversationalText"].output, ix,
                                            cfg.conv_text) :
                DOMAIN m.map = {}
    /\ (hist["Conversational"].ran /\ hist["Conversational"].applied) =>
          \A ix \in 1..NumRows :
             \A c \in get_conv_props(hist["Conversational"].output, ix) :
                c.exc = "none" => Len(c.props) = 0
    /\ (hist["DPO"].ran /\ hist["DPO"].applied) =>
          ~DPO_is_this_format(
              GetRoleColMap(cfg.dpo.column_role_map, hist["DPO"].output.cols))

\* C2: a column that SFT bound to a role, when SFT applied, is neither
\* bound to a role by the column binding of a later DPO stage that applies
\* nor one of the candidate columns the later Conversational scan examines.
C2_BoundColumnNotReconsidered ==
    (hist["SFT"].ran /\ hist["SFT"].applied) =>
       LET sft_map == GetRoleColMap(cfg.sft.column_role_map, hist["SFT"].input.cols)
           sft_cols == {sft_map[r] : r \in DOMAIN sft_map}
       IN /\ (hist["DPO"].ran /\ hist["DPO"].applied) =>
               LET dpo_map == GetRoleColMap(cfg.dpo.column_role_map,
                                            hist["DPO"].input.cols)
               IN sft_cols \cap {dpo_map[r] : r \in DOMAIN dpo_map} = {}
          /\ hist["Conversational"].ran =>
               \A ix \in 1..NumRows :
                  sft_cols \cap Range(get_conv_columns(hist["Conversational"].input, ix)) = {}

\* C4: pass-through on inapplicability.  A step of the chain whose head
\* stage (Merger, SFT, ConversationalText, Conversational, DPO) finds its
\* applicability check false leaves the dataset, columns and values, and
\* the accumulated canonical-column list as they were; so when the
\* Merger's configured source columns are absent, the dataset SFT is
\* constructed on is the original input.
C4_PassThrough ==
    [][ LET same == dataset' = dataset /\ messages_cols' = messages_cols
        IN /\ ( /\ pc = "merger"
                /\ ~IsNone(cfg.merger)
                /\ Merger_is_this_format(dataset, cfg.merger) = "False" ) => same
           /\ (pc = "sft" /\ ~SFT_is_this_format(inst.role_col_map)) => same
           /\ ( /\ pc = "conv_text"
                /\ pc' = "conv"
                /\ ~hist'["ConversationalText"].applied ) => same
           /\ (pc = "conv" /\ Len(inst.conv_props) = 0) => same
           /\ (pc = "dpo" /\ ~DPO_is_this_format(inst.col_map)) => same
           /\ \A D \in StageNames \ {"Output"} :
                (hist'[D] # hist[D] /\ ~hist'[D].applied) =>
                    /\ hist'[D].output = hist'[D].input
                    /\ same
      ]_vars

\* a run in which a Merger configured with source columns the dataset
\* lacks and the four stages after it all found themselves inapplicable,
\* and the dataset that reached Output is the original input
C4_Witness ==
    /\ pc = "done"
    /\ ~IsNone(cfg.merger)
    /\ ~cfg.merger.user.fields_none
    /\ \E i \in DOMAIN cfg.merger.user.fields :
          cfg.merger.user.fields[i] \notin ColSet(hist["Merger"].input)
    /\ \A D \in StageNames \ {"Output"} : hist[D].ran /\ ~hist[D].applied
    /\ hist["SFT"].input = hist["Merger"].input
    /\ hist["Output"].input = hist["Merger"].input
    /\ messages_cols = {}

\* C5: stages never raise on data that is not their format.  With every
\* stage configured, constructing the Conversational detector on a
\* dataset never raises KeyError (no turn key of a candidate column has 1
\* to 3 distinct values, so the role key is unresolved) nor IndexError
\* (has_system holds but no combination of the first three roles is
\* pairwise distinct): such a column is ignored.
C5_ConvNeverRaises ==
    (\A f \in StageFields \ {"conv_text"} : ~IsNone(cfg[f])) =>
        ~( /\ pc = "raised"
           /\ raised.at = "conv_text"
           /\ raised.exc \in {"KeyError", "IndexError"} )

\* C6: an absent configuration disables a stage.  When the configuration
\* of a stage (Merger, SFT, ConversationalText, Conversational, DPO,
\* Output) is None, the chain does not raise, the stage returns the
\* dataset it was given and its name is not among the recorded formats.
C6_AbsentConfigDisables ==
    LET NameOf(f) ==
            CASE f = "merger" -> "Merger"
              [] f = "sft" -> "SFT"
              [] f = "conv_text" -> "ConversationalText"
              [] f = "conv" -> "Conversational"
              [] f = "dpo" -> "DPO"
              [] f = "output" -> "Output"
    IN \A f \in StageFields :
          IsNone(cfg[f]) =>
             /\ pc # "raised"
             /\ hist[NameOf(f)].ran =>
                   /\ hist[NameOf(f)].output = hist[NameOf(f)].input
                   /\ \A i \in DOMAIN formats : formats[i] # NameOf(f)

C8_WrittenColumnsAccumulated ==
    LET Written(D) ==
            {c \in ColSet(hist[D].output) :
                \/ c \notin ColSet(hist[D].input)
                \/ \E r \in DOMAIN hist[D].output.rows :
                      hist[D].output.rows[r][c] # hist[D].input.rows[r][c]}
        Writers == {"SFT", "ConversationalText", "Conversational", "DPO"}
    IN /\ pc \in {"output", "done"} =>
            \A D \in Writers : hist[D].applied => Written(D) \subseteq messages_cols
       /\ (pc = "done" /\ ~IsNone(cfg.output) /\ cfg.output.return_only_messages) =>
            \A D \in Writers : hist[D].applied => Written(D) \subseteq ColSet(dataset)

\* C9: every message of every message list a stage that applied wrote
\* (SFT's messages, the columns ConversationalText and Conversational
\* rewrote, DPO's chosen and rejected) has a role among system, user and
\* assistant and a content that is a string.
C9_MessagesWellTyped ==
    LET Written(D) ==
            {c \in ColSet(hist[D].output) :
                \/ c \notin ColSet(hist[D].input)
                \/ \E r \in DOMAIN hist[D].output.rows :
                      hist[D].output.rows[r][c] # hist[D].input.rows[r][c]}
        WellTyped(m) ==
            /\ DictHas(m, ROLE)
            /\ DictGet(m, ROLE) \in {Str(Chars[r]) : r \in MessageRole}
            /\ DictHas(m, CONTENT)
            /\ DictGet(m, CONTENT).t = "str"
    IN \A D \in {"SFT", "ConversationalText", "Conversational", "DPO"} :
          (hist[D].ran /\ hist[D].applied) =>
             \A c \in Written(D) :
                \A r \in DOMAIN hist[D].output.rows :
                   LET cell == hist[D].output.rows[r][c]
                   IN cell.t = "list" =>
                         \A i \in DOMAIN cell.c : WellTyped(cell.c[i])

\* C10 as stated: in every message list a stage that applied wrote, no
\* system message follows a user or assistant message, and where a list
\* holds both user and assistant messages a user message comes before
\* the first assistant message.
C10_RoleOrderNormalized ==
    LET Written(D) ==
            {c \in ColSet(hist[D].output) :
                \/ c \notin ColSet(hist[D].input)
                \/ \E r \in DOMAIN hist[D].output.rows :
                      hist[D].output.rows[r][c] # hist[D].input.rows[r][c]}
        Is(m, role) == DictHas(m, ROLE) /\ DictGet(m, ROLE) = Str(Chars[role])
    IN \A D \in {"SFT", "ConversationalText", "Conversational", "DPO"} :
          (hist[D].ran /\ hist[D].applied) =>
             \A c \in Written(D) :
                \A r \in DOMAIN hist[D].output.rows :
                   LET cell == hist[D].output.rows[r][c]
                   IN cell.t = "list" =>
                        /\ \A i, j \in DOMAIN cell.c :
                              (i < j /\ Is(cell.c[j], SYSTEM)) =>
                                  ~(Is(cell.c[i], USER) \/ Is(cell.c[i], ASSISTANT))
                        /\ \A i \in DOMAIN cell.c :
                              (Is(cell.c[i], ASSISTANT) /\ \E j \in DOMAIN cell.c : Is(cell.c[j], USER))
                                  => \E j \in 1..(i - 1) : Is(cell.c[j], USER)

\* C10, amended: the lists SFT and ConversationalText write hold at most
\* one message per role, in the order system, user, assistant; the lists
\* Conversational writes keep the turns of the source conversation in
\* their input order (same length, the content of turn i at position i);
\* the lists DPO writes keep the distinct turns of an embedded
\* conversation column in their input order.
C10_OrderByStage ==
    LET Written(D) ==
            {c \in ColSet(hist[D].output) :
                \/ c \notin ColSet(hist[D].input)
                \/ \E r \in DOMAIN hist[D].output.rows :
                      hist[D].output.rows[r][c] # hist[D].input.rows[r][c]}
        Rank(m) ==
            IF DictGet(m, ROLE) = Str(Chars[SYSTEM]) THEN 1
            ELSE IF DictGet(m, ROLE) = Str(Chars[USER]) THEN 2
            ELSE 3
        Sorted(D) ==
            \A c \in Written(D) :
               \A r \in DOMAIN hist[D].output.rows :
                  LET cell == hist[D].output.rows[r][c]
                  IN /\ cell.t = "list"
                     /\ \A i, j \in DOMAIN cell.c :
                           i < j => Rank(cell.c[i]) < Rank(cell.c[j])
        SameTurns(out, in) ==
            /\ in.t = "list"
            /\ Len(out.c) = Len(in.c)
            /\ \A i \in DOMAIN out.c :
                  \E k \in DictKeys(in.c[i]) :
                     DictGet(in.c[i], k) = DictGet(out.c[i], CONTENT)
        InOrder(turns, out) ==
            \A i, j \in DOMAIN turns :
               i < j => \E p, q \in DOMAIN out :
                           p < q /\ out[p] = turns[i] /\ out[q] = turns[j]
    IN /\ (hist["SFT"].ran /\ hist["SFT"].applied) => Sorted("SFT")
       /\ (hist["ConversationalText"].ran /\ hist["ConversationalText"].applied) =>
             Sorted("ConversationalText")
       /\ (hist["Conversational"].ran /\ hist["Conversational"].applied) =>
             \A c \in Written("Conversational") :
                \E src \in ColSet(hist["Conversational"].input) :
                   /\ c \in ColSet(hist["Conversational"].input) => src = c
                   /\ \A r \in DOMAIN hist["Conversational"].output.rows :
                         SameTurns(hist["Conversational"].output.rows[r][c],
                                   hist["Conversational"].input.rows[r][src])
       /\ (hist["DPO"].ran /\ hist["DPO"].applied) =>
             LET col_map == GetRoleColMap(cfg.dpo.column_role_map, hist["DPO"].input.cols)
             IN \A role \in {SYSTEM, USER} \cap DOMAIN col_map :
                  (\A ix \in 1..NumRows :
                      col_map[role] \in Range(get_conv_columns(hist["DPO"].input, ix))) =>
                     \A r \in DOMAIN hist["DPO"].output.rows :
                        \A out \in {CHOSEN, REJECTED} :
                           InOrder(Dedup(hist["DPO"].input.rows[r][col_map[role]].c, <<>>),
                                   hist["DPO"].output.rows[r][out].c)

\* a run in which Conversational wrote a list that starts with an
\* assistant message followed by a user message, as the source turns
\* did, and a run in which DPO spliced an embedded conversation whose
\* first turn is not a user turn
C10_Witness ==
    /\ hist["Conversational"].ran
    /\ hist["Conversational"].applied
    /\ \E c \in ColSet(hist["Conversational"].output) :
          \E r \in DOMAIN hist["Conversational"].output.rows :
             LET cell == hist["Conversational"].output.rows[r][c]
             IN /\ cell.t = "list"
                /\ Len(cell.c) >= 2
                /\ c \notin ColSet(hist["Conversational"].input)
                /\ DictGet(cell.c[1], ROLE) = Str(Chars[ASSISTANT])
                /\ DictGet(cell.c[2], ROLE) = Str(Chars[USER])
    /\ hist["DPO"].ran
    /\ hist["DPO"].applied
    /\ \E r \in DOMAIN hist["DPO"].output.rows :
          Len(hist["DPO"].output.rows[r][CHOSEN].c) >= 3

\* C11: row count is preserved.  After any prefix of the chain Merger,
\* SFT, ConversationalText, Conversational, DPO, Output, for every
\* configuration and whether or not a stage applied, the dataset at the
\* head of the chain and every dataset a stage returned have as many rows
\* as the original input (a projection by Output keeps the rows even when
\* it keeps no column).
C11_RowCountPreserved ==
    pc # "idle" =>
       /\ Len(dataset.rows) = NumRows
       /\ \A D \in StageNames :
            hist[D].ran =>
               /\ Len(hist[D].input.rows) = NumRows
               /\ Len(hist[D].output.rows) = Len(hist["Merger"].input.rows)

\* a finished run in which Merger and DPO wrote columns and Output, with
\* return_only_messages, dropped columns, and a finished run in which
\* Output kept no column at all
C11_Witness ==
    /\ pc = "done"
    /\ ~IsNone(cfg.output)
    /\ cfg.output.return_only_messages
    /\ \/ /\ hist["DPO"].applied
          /\ hist["SFT"].applied
          /\ ColSet(dataset) # ColSet(hist["Output"].input)
       \/ ColSet(dataset) = {}
    /\ Len(dataset.rows) = Len(hist["Merger"].input.rows)

BoundRoles == {role_col[k][1] : k \in DOMAIN role_col}

\* C13: SFT applicability.  Once the columns are walked, the returned dict
\* holds exactly the bound roles, and is_this_format of SFTFormat on it is
\* true if and only if both the user role and the assistant role were
\* bound to a column.
C13_SFTApplicability ==
    b_pc = "done" =>
       /\ DOMAIN b_out.role_col_map = BoundRoles
       /\ b_out.sft <=> (USER \in BoundRoles /\ ASSISTANT \in BoundRoles)

\* the walk bound system and exactly one of user/assistant, two roles in
\* all, and SFT is not applicable
C13_Witness ==
    /\ b_pc = "done"
    /\ SYSTEM \in BoundRoles
    /\ Cardinality(BoundRoles) = 2
    /\ Cardinality(BoundRoles \cap {USER, ASSISTANT}) = 1
    /\ ~b_out.sft

\* C15: Preference-Pair applicability.  Once the columns are walked,
\* is_this_format of DPOFormat on the returned dict is true if and only if
\* both the chosen role and the rejected role were bound to a column;
\* whatever else is bound (user, system) neither helps nor hinders.
C15_DPOApplicability ==
    b_pc = "done" =>
       (b_out.dpo <=> (CHOSEN \in BoundRoles /\ REJECTED \in BoundRoles))

\* the walk bound user and chosen but not rejected, two roles in all, and
\* the Preference-Pair format is not applicable
C15_Witness ==
    /\ b_pc = "done"
    /\ BoundRoles = {USER, CHOSEN}
    /\ ~b_out.dpo

\* the list [system (if bound), user (if bound), assistant message with the
\* variant column's value] of one record
DPOPlainList(row, col_map, variant) ==
    (IF SYSTEM \in DOMAIN col_map THEN <<Msg(SYSTEM, row[col_map[SYSTEM]])>> ELSE <<>>)
    \o (IF USER \in DOMAIN col_map THEN <<Msg(USER, row[col_map[USER]])>> ELSE <<>>)
    \o <<Msg(ASSISTANT, row[col_map[variant]])>>

DPOSourceCols(col_map, variant) ==
    {col_map[t] : t \in DOMAIN col_map \cap {SYSTEM, USER, variant}}

DPOAssembled(row, col_map, conv_cols, variant) ==
    DPOPart(row, col_map, conv_cols, SYSTEM)
      \o DPOPart(row, col_map, conv_cols, USER)
      \o DPOPart(row, col_map, conv_cols, variant)

\* the positions of a list whose message equals no earlier message
FirstOccurrences(a) ==
    {i \in DOMAIN a : \A j \in 1..(i - 1) : ~DictEq(a[j], a[i])}

\* list l is list a restricted to the positions in kept, in order
IsSubsequenceAt(l, a, kept) ==
    /\ Len(l) = Cardinality(kept)
    /\ \A i \in kept : l[Cardinality({j \in kept : j < i}) + 1] = a[i]

\* C16: in-row de-duplication.  When the Preference-Pair stage applies,
\* for every record and each variant the emitted list holds no two equal
\* messages and is exactly the sequence of first occurrences, in order, of
\* the messages assembled from the system, user and variant columns
\* (embedded conversation columns, as found in the sampled record, spliced
\* turn by turn).
C16_InRowDedup ==
    (hist["DPO"].ran /\ hist["DPO"].applied) =>
       LET in == hist["DPO"].input
           out == hist["DPO"].output
           col_map == GetRoleColMap(cfg.dpo.column_role_map, in.cols)
       IN \E ix \in DOMAIN in.rows :
            \A r \in DOMAIN in.rows :
              \A variant \in {CHOSEN, REJECTED} :
                 LET a == DPOAssembled(in.rows[r], col_map, get_conv_columns(in, ix), variant)
                     l == out.rows[r][variant].c
                 IN /\ \A k, m \in DOMAIN l : k # m => ~DictEq(l[k], l[m])
                    /\ IsSubsequenceAt(l, a, FirstOccurrences(a))

\* the stage applied and in some record the assembled chosen messages held
\* a message twice or more: the emitted list is shorter and still
\* has three messages or more
C16_Witness ==
    /\ hist["DPO"].ran /\ hist["DPO"].applied
    /\ LET in == hist["DPO"].input
           out == hist["DPO"].output
           col_map == GetRoleColMap(cfg.dpo.column_role_map, in.cols)
       IN \E r \in DOMAIN in.rows :
            \A ix \in DOMAIN in.rows :
               LET a == DPOAssembled(in.rows[r], col_map, get_conv_columns(in, ix), CHOSEN)
               IN /\ Len(out.rows[r][CHOSEN].c) < Len(a)
                  /\ Len(out.rows[r][CHOSEN].c) >= 2

\* every conversation of the column has exactly two turns and the role key
\* found for the column takes two values over the sampled turns
TwoTurnsTwoRoles(ds, column) ==
    /\ \A r \in DOMAIN ds.rows :
          ds.rows[r][column].t = "list" /\ Len(ds.rows[r][column].c) = 2
    /\ RoleKeyOf(Flatten(ds, column, 1)) # None
    /\ NUnique(Flatten(ds, column, 1), RoleKeyOf(Flatten(ds, column, 1))) = 2

\* C17: Conversation-Object Normalizer, two-position branch.  For a column
\* whose conversations all have exactly two turns and whose role key takes
\* two values, the role map of the column binds the first-position value
\* of a most frequent (pos0, pos1) pair to user and its second-position
\* value to assistant.
C17_TwoPositionBranch ==
    pc = "conv" =>
       LET in == hist["ConversationalText"].output
       IN \A i \in DOMAIN inst.conv_props :
            LET cp == inst.conv_props[i]
            IN TwoTurnsTwoRoles(in, cp.column) =>
                 \E c \in MostFrequent(in, cp.column, cp.role_key, 2,
                                       Combos(in, cp.column, cp.role_key, 2)) :
                    /\ {c[1], c[2]} \subseteq DOMAIN cp.roles_map
                    /\ cp.roles_map[c[1]] = USER
                    /\ cp.roles_map[c[2]] = ASSISTANT

\* the three groups of a merger configuration, in the order they are applied
MergerGroups(mc) == <<mc.system, mc.user, mc.assistant>>

\* C18: Merger concatenation.  When the Merger applies, for each group
\* with a field list every record's destination column equals the
\* separator-join, in listed order, of the string values the input record
\* has in the listed source columns; a group without a field list adds no
\* destination column.
C18_MergerConcatenation ==
    (hist["Merger"].ran /\ hist["Merger"].applied) =>
       LET in == hist["Merger"].input
           out == hist["Merger"].output
           groups == MergerGroups(cfg.merger)
           Dest(g) == groups[g].merged_field
       IN /\ \A g \in DOMAIN groups :
               ~groups[g].fields_none =>
                  /\ Dest(g) \in ColSet(out)
                  /\ \A r \in DOMAIN in.rows :
                       out.rows[r][Dest(g)] = _merge_field_vals(in.rows[r], groups[g])
          /\ ColSet(out) \ ColSet(in) =
               {Dest(g) : g \in {h \in DOMAIN groups : ~groups[h].fields_none}} \ ColSet(in)

----------------------------------------------------------------------------
(* TextUtils.parse_to_dict and ConversationalTextFormat.try_parsing_to_dict *)
(* called on one template and one text: the templates of ParseTemplates    *)
(* against every text of at most MaxTextLen characters and against None    *)

ParseAlphabet == {"Q", "A", "h"}

ParseTemplates ==
    { <<"Q", "{user}", "A", "{assistant}">>,
      <<"A", "{assistant}", "Q", "{user}">>,
      <<"{user}", "A", "{assistant}">>,
      <<"Q", "{user}", "A">>,
      <<"{user}", "{assistant}">>,
      <<"Q", "{name}">>,
      <<"Q", "A">>,
      <<>>,
      <<"Q", "{}">>,
      <<"{}", "{user}", "{user}">>,
      <<"{user}", "Q", "{user}">> }

ParseTexts ==
    {Str(t) : t \in UNION {[1..n -> ParseAlphabet] : n \in 0..MaxTextLen}} \cup {Null}

InitParse ==
    /\ p_pc = "call"
    /\ p_template \in ParseTemplates
    /\ p_text \in ParseTexts
    /\ p_result = NoResult
    /\ pc = "idle"
    /\ cfg = NoneCfg
    /\ dataset = EmptyDs
    /\ inst = NewInst(1)
    /\ formats = <<>>
    /\ messages_cols = {}
    /\ raised = NoRaise
    /\ hist = [s \in StageNames |-> NotRun]
    /\ b_pc = "idle"
    /\ pattern_role_map = <<>>
    /\ p_r_map = <<>>
    /\ b_cols = <<>>
    /\ b_i = 0
    /\ role_col = <<>>
    /\ b_out = NoOut
    /\ KeysIdle
    /\ RunIdle

\* tu.parse_to_dict(template, text), as _create_messages_from_template
\* calls it
ParseCall ==
    /\ p_pc = "call"
    /\ p_result' = parse_to_dict(p_template, p_text)
    /\ p_pc' = "returned"
    /\ UNCHANGED <<p_template, p_text>>
    /\ UNCHANGED <<chainVars, bindVars, keyVars, runVars>>

\* try_parsing_to_dict(template, text): no exception leaves it
TryParseCall ==
    /\ p_pc = "call"
    /\ p_result' = [exc |-> "none", dict |-> try_parsing_to_dict(p_template, p_text)]
    /\ p_pc' = "tried"
    /\ UNCHANGED <<p_template, p_text>>
    /\ UNCHANGED <<chainVars, bindVars, keyVars, runVars>>

NextParse == ParseCall \/ TryParseCall

SpecParse == InitParse /\ [][NextParse]_vars

\* the template with each placeholder replaced by the text d gives it
RECURSIVE Fill(_, _)
Fill(template, d) ==
    IF Len(template) = 0 THEN <<>>
    ELSE (IF IsPlaceholder(Head(template))
          THEN d[PlaceholderName[Head(template)]]
          ELSE <<Head(template)>>) \o Fill(Tail(template), d)

IsSubstring(x, text) ==
    \E p \in 0..(Len(text) - Len(x)) : SubSeq(text, p + 1, p + Len(x)) = x

NonEmptySubstrings(text) ==
    {SubSeq(text, i, j) : <<i, j>> \in {ij \in (DOMAIN text) \X (DOMAIN text) : ij[1] <= ij[2]}}

\* some non-empty texts put at the placeholders make the template a part
\* of the text
Matchable(template, text) ==
    \E d \in [Range(GroupNames(template)) -> NonEmptySubstrings(text)] :
        IsSubstring(Fill(template, d), text)

\* C19: template parsing.  A template with an unnamed {} is rejected with
\* ValueError whatever the text, and only such a template is.  For a
\* template whose placeholders are named and distinct and a text that is a
\* string, no exception is raised; if some non-empty texts put at the
\* placeholders make the template occur in the text, the result maps each
\* placeholder, in template order, to a non-empty text, and the template
\* filled with these texts occurs in the text; otherwise the result is the
\* empty mapping.  try_parsing_to_dict gives the empty mapping for a
\* rejected template.
C19_TemplateParsing ==
    LET names == GroupNames(p_template)
        unnamed == \E i \in DOMAIN p_template : p_template[i] = "{}"
        distinct == \A i, j \in DOMAIN names : i # j => names[i] # names[j]
        d == p_result.dict
        AsFn == [n \in Range(names) |-> DictGet(d, n).s]
    IN /\ p_pc = "returned" =>
            /\ (p_result.exc = "ValueError") <=> unnamed
            /\ (~unnamed /\ distinct /\ p_text.t = "str") =>
                  /\ p_result.exc = "none"
                  /\ IF Matchable(p_template, p_text.s)
                     THEN /\ [i \in DOMAIN d |-> d[i].k] = names
                          /\ \A i \in DOMAIN d : d[i].val.t = "str" /\ Len(d[i].val.s) >= 1
                          /\ IsSubstring(Fill(p_template, AsFn), p_text.s)
                     ELSE d = <<>>
       /\ p_pc = "tried" =>
            /\ p_result.exc = "none"
            /\ unnamed => d = <<>>

\* the template Q{user}A{assistant} parsed against the text QhAh gave
\* {user: h, assistant: h}
C19_Witness ==
    /\ p_pc = "returned"
    /\ p_template = <<"Q", "{user}", "A", "{assistant}">>
    /\ p_text = Str(<<"Q", "h", "A", "h">>)
    /\ p_result = [exc |-> "none",
                   dict |-> <<Item(USER, Str(<<"h">>)), Item(ASSISTANT, Str(<<"h">>))>>]

----------------------------------------------------------------------------
(* choosed_gpt4_key of app/helpers/call_openai.py called by NumThreads     *)
(* worker threads, each making at most MaxCalls calls.  The function      *)
(* takes no lock; a thread switch can come between any two accesses of    *)
(* the shared dict, and each step below makes one read or one write of it *)

LastBranch == 13

InitKeys ==
    /\ KeysIdle
    /\ RunIdle
    /\ ParseIdle
    /\ pc = "idle"
    /\ cfg = NoneCfg
    /\ dataset = EmptyDs
    /\ inst = NewInst(1)
    /\ formats = <<>>
    /\ messages_cols = {}
    /\ raised = NoRaise
    /\ hist = [s \in StageNames |-> NotRun]
    /\ b_pc = "idle"
    /\ pattern_role_map = <<>>
    /\ p_r_map = <<>>
    /\ b_cols = <<>>
    /\ b_i = 0
    /\ role_col = <<>>
    /\ b_out = NoOut

\* call_openai_api calls choosed_gpt4_key(): current_choosed_key = {}
KeyCall ==
    \E t \in Threads :
        /\ k_pc[t] = "idle"
        /\ k_calls[t] < MaxCalls
        /\ k_calls' = [k_calls EXCEPT ![t] = k_calls[t] + 1]
        /\ k_pc' = [k_pc EXCEPT ![t] = "test"]
        /\ k_branch' = [k_branch EXCEPT ![t] = 0]
        /\ current_choosed_key' = [current_choosed_key EXCEPT ![t] = NoKey]
        /\ UNCHANGED <<last_gpt4_choosed_key, k_round>>
        /\ UNCHANGED <<chainVars, bindVars, parseVars, runVars>>

\* one comparison last_gpt4_choosed_key["round"] == b of the if/elif
\* chain; after the comparison with 12 fails the else branch is taken
KeyTest ==
    \E t \in Threads :
        /\ k_pc[t] = "test"
        /\ IF last_gpt4_choosed_key.round = k_branch[t]
           THEN k_pc' = [k_pc EXCEPT ![t] = "set_api"] /\ k_branch' = k_branch
           ELSE IF k_branch[t] = LastBranch - 1
           THEN /\ k_pc' = [k_pc EXCEPT ![t] = "set_api"]
                /\ k_branch' = [k_branch EXCEPT ![t] = LastBranch]
           ELSE /\ k_pc' = k_pc
                /\ k_branch' = [k_branch EXCEPT ![t] = k_branch[t] + 1]
        /\ UNCHANGED <<k_calls, last_gpt4_choosed_key, k_round, current_choosed_key>>
        /\ UNCHANGED <<chainVars, bindVars, parseVars, runVars>>

\* the subtrahend of the index in the branch: none in branches 0..3
BranchOffset(b) == IF b <= 8 THEN 4 ELSE 9

\* list[i] of a Python list of n items: i in -n..n-1, else IndexError
InRange(i, n) == -n <= i /\ i <= n - 1

\* last_gpt4_choosed_key["api"] = llm[...][...round - offset]: the round is
\* read again for the index
KeySetApi ==
    \E t \in Threads :
        /\ k_pc[t] = "set_api"
        /\ LET i == last_gpt4_choosed_key.round - BranchOffset(k_branch[t])
           IN IF k_branch[t] <= 3
              THEN /\ last_gpt4_choosed_key' = [last_gpt4_choosed_key EXCEPT !.api = Key150k]
                   /\ k_pc' = [k_pc EXCEPT ![t] = "copy"]
              ELSE IF InRange(i, NumKeys80k)
              THEN /\ last_gpt4_choosed_key' =
                         [last_gpt4_choosed_key EXCEPT !.api = Key80k(i % NumKeys80k)]
                   /\ k_pc' = [k_pc EXCEPT ![t] = "copy"]
              ELSE /\ last_gpt4_choosed_key' = last_gpt4_choosed_key
                   /\ k_pc' = [k_pc EXCEPT ![t] = "IndexError"]
        /\ UNCHANGED <<k_calls, k_branch, k_round, current_choosed_key>>
        /\ UNCHANGED <<chainVars, bindVars, parseVars, runVars>>

\* current_choosed_key = copy.copy(last_gpt4_choosed_key)
KeyCopy ==
    \E t \in Threads :
        /\ k_pc[t] = "copy"
        /\ current_choosed_key' = [current_choosed_key EXCEPT ![t] = last_gpt4_choosed_key]
        /\ k_pc' = [k_pc EXCEPT ![t] = IF k_branch[t] \in {0, LastBranch} THEN "write" ELSE "read"]
        /\ UNCHANGED <<k_calls, last_gpt4_choosed_key, k_branch, k_round>>
        /\ UNCHANGED <<chainVars, bindVars, parseVars, runVars>>

\* the right-hand side of round = round + 1 in branches 1..12
KeyReadRound ==
    \E t \in Threads :
        /\ k_pc[t] = "read"
        /\ k_round' = [k_round EXCEPT ![t] = last_gpt4_choosed_key.round]
        /\ k_pc' = [k_pc EXCEPT ![t] = "write"]
        /\ UNCHANGED <<k_calls, last_gpt4_choosed_key, k_branch, current_choosed_key>>
        /\ UNCHANGED <<chainVars, bindVars, parseVars, runVars>>

\* the store of the round: 1 in branch 0, 0 in the else branch, the round
\* read plus one in the others
KeyWriteRound ==
    \E t \in Threads :
        /\ k_pc[t] = "write"
        /\ last_gpt4_choosed_key' =
              [last_gpt4_choosed_key EXCEPT !.round =
                  IF k_branch[t] = 0 THEN 1
                  ELSE IF k_branch[t] = LastBranch THEN 0
                  ELSE k_round[t] + 1]
        /\ k_pc' = [k_pc EXCEPT ![t] = "return"]
        /\ UNCHANGED <<k_calls, k_branch, k_round, current_choosed_key>>
        /\ UNCHANGED <<chainVars, bindVars, parseVars, runVars>>

\* return current_choosed_key: the locals are gone and the worker is free
\* for its next call
KeyReturn ==
    \E t \in Threads :
        /\ k_pc[t] = "return"
        /\ k_pc' = [k_pc EXCEPT ![t] = "idle"]
        /\ k_round' = [k_round EXCEPT ![t] = -1]
        /\ k_branch' = [k_branch EXCEPT ![t] = 0]
        /\ current_choosed_key' = [current_choosed_key EXCEPT ![t] = NoKey]
        /\ UNCHANGED <<k_calls, last_gpt4_choosed_key>>
        /\ UNCHANGED <<chainVars, bindVars, parseVars, runVars>>

NextKeys ==
    \/ KeyCall
    \/ KeyTest
    \/ KeySetApi
    \/ KeyCopy
    \/ KeyReadRound
    \/ KeyWriteRound
    \/ KeyReturn

SpecKeys == InitKeys /\ [][NextKeys]_vars

\* C20: thread-safe credential rotation.  Whatever the interleaving of the
\* worker threads, no call of the selector raises, every call that
\* returned gave one of the configured credentials, and the shared round
\* counter stays within 0..13.
C20_ThreadSafeRotation ==
    /\ \A t \in Threads : k_pc[t] # "IndexError"
    /\ \A t \in Threads :
          k_pc[t] = "return" => current_choosed_key[t].api \in Credentials
    /\ last_gpt4_choosed_key.round \in 0..LastBranch

\* a group that is present and has a non-empty field list
HasFields(fc) == ~IsNone(fc) /\ ~fc.fields_none /\ fc.fields # <<>>

\* the union of the source columns of the groups that are present
SourceColumns(mc) ==
    UNION {IF IsNone(mc[g]) \/ mc[g].fields_none THEN {} ELSE Range(mc[g].fields) :
              g \in {"system", "user", "assistant"}}

\* C25: Merger applicability.  With a merger configuration present, the
\* construction of the chain never raises in the Merger, whichever of the
\* three groups are absent; the Merger applies if and only if some group
\* has a non-empty field list and every configured source column is a
\* column of the dataset, and otherwise returns its input dataset.
C25_MergerApplicability ==
    /\ ~(pc = "raised" /\ raised.at = "merger" /\ ~IsNone(cfg.merger) /\ ~IsNone(cfg.sft))
    /\ (hist["Merger"].ran /\ ~IsNone(cfg.merger)) =>
          LET in == hist["Merger"].input
              mc == cfg.merger
              applies == /\ \E g \in {"system", "user", "assistant"} : HasFields(mc[g])
                         /\ SourceColumns(mc) \subseteq ColSet(in)
          IN /\ hist["Merger"].applied <=> applies
             /\ ~applies => hist["Merger"].output = in

\* the role key found for the column has three distinct values and some
\* conversation of the dataset has three turns or more
ThreePositionCase(ds, column) ==
    /\ \A r \in DOMAIN ds.rows : ds.rows[r][column].t = "list"
    /\ RoleKeyOf(Flatten(ds, column, 1)) # None
    /\ NUnique(Flatten(ds, column, 1), RoleKeyOf(Flatten(ds, column, 1))) = 3
    /\ NumPositions(ds, column) >= 3

\* the columns of the dataset that hold a list in every row
ListColumns(ds) ==
    {c \in Range(ds.cols) : \A r \in DOMAIN ds.rows : ds.rows[r][c].t = "list"}

\* C26: Conversation-Object Normalizer, three-position branch.  When the
\* role key has exactly three distinct values and some conversation has
\* three turns or more, the normalizer is built and the role map of the
\* column is {a: system, b: user, c: assistant} for a combination (a, b, c)
\* of the first three turns' role values that is pairwise distinct and as
\* frequent as any pairwise distinct combination; a combination with a
\* repeated value never gives the map.
C26_ThreePositionBranch ==
    /\ ~(/\ pc = "raised" /\ raised.at = "conv_text" /\ raised.exc = "IndexError"
         /\ IsNone(cfg.conv_text)
         /\ ListColumns(dataset) # {}
         /\ \A col \in ListColumns(dataset) : ThreePositionCase(dataset, col))
    /\ pc = "conv" =>
         LET in == hist["ConversationalText"].output
         IN \A i \in DOMAIN inst.conv_props :
              LET cp == inst.conv_props[i]
                  all == Combos(in, cp.column, cp.role_key, 3)
                  distinct == {c \in all : PairwiseDistinct(c)}
              IN ThreePositionCase(in, cp.column) =>
                   \E c \in distinct :
                      /\ \A d \in distinct :
                            ComboCount(in, cp.column, cp.role_key, 3, d)
                               <= ComboCount(in, cp.column, cp.role_key, 3, c)
                      /\ DOMAIN cp.roles_map = {c[1], c[2], c[3]}
                      /\ cp.roles_map[c[1]] = SYSTEM
                      /\ cp.roles_map[c[2]] = USER
                      /\ cp.roles_map[c[3]] = ASSISTANT

\* the turn keys, in iteration order, that take one, two or three distinct
\* values over the turns
FewValuedKeys(turns) ==
    LET Few(k) == NUnique(turns, k) \in {1, 2, 3}
    IN SelectSeq(KeysInOrder(turns, <<>>), Few)

UnmappedTurn(ds, cp) ==
    \E r \in DOMAIN ds.rows :
       /\ ds.rows[r][cp.column].t = "list"
       /\ \E t \in DOMAIN ds.rows[r][cp.column].c :
            LET turn == ds.rows[r][cp.column].c[t]
            IN /\ DictHas(turn, cp.role_key)
               /\ DictGet(turn, cp.role_key) \notin DOMAIN cp.roles_map

\* C28: the Conversation-Object Normalizer transformation is total.  When
\* the stage applies, the transformation completes for all records, also
\* those with a turn whose role value is outside the most frequent role
\* pattern, and every turn of every record of every valid conversation
\* column is rewritten to exactly the keys role and content, with the
\* canonical role the inferred map gives to the turn's raw role value.
C28_TransformationTotal ==
    /\ ~(/\ pc = "raised" /\ raised.at = "conv" /\ ~IsNone(cfg.conv)
         /\ \E i \in DOMAIN inst.conv_props : UnmappedTurn(dataset, inst.conv_props[i]))
    /\ (hist["Conversational"].ran /\ hist["Conversational"].applied /\ ~IsNone(cfg.conv)) =>
          LET in == hist["Conversational"].input
              out == hist["Conversational"].output
          IN \A r \in DOMAIN in.rows :
             \A col \in ListColumns(out) :
             \A t \in DOMAIN out.rows[r][col].c :
                 col \in messages_cols =>
                    LET turn == out.rows[r][col].c[t]
                    IN /\ Len(turn) = 2
                       /\ DictKeys(turn) = {ROLE, CONTENT}
                       /\ DictGet(turn, ROLE).s \in {Chars[SYSTEM], Chars[USER], Chars[ASSISTANT]}

\* C30: detection is independent of the sampled row.  For the dataset and
\* configuration a stage was built on, a run in which the base class
\* samples any other row gives the same candidate conversation columns for
\* the Conversation-Object Normalizer and the same outcome and output
\* dataset for the Preference-Pair stage as the run that sampled
\* inst.rnd_ix.
C30_SampleIndependence ==
    /\ pc = "conv" =>
          \A j \in DOMAIN dataset.rows :
             get_conv_columns(dataset, j) = get_conv_columns(dataset, inst.rnd_ix)
    /\ pc = "dpo" =>
          \A j \in DOMAIN dataset.rows :
             DPO_format(dataset, inst.col_map, j)
                = DPO_format(dataset, inst.col_map, inst.rnd_ix)

----------------------------------------------------------------------------
(* run_parallel_exec of app/helpers/utils.py and its callers: Job.run,    *)
(* QualityAnalyzer._analyze, ConversationalTextFormat._get_col_template_map *)
(* and run_parallel_exec_but_return_in_order.  Every element is submitted *)
(* to a thread pool; the futures complete in any order, and the loop over *)
(* as_completed appends (element, data) in that order.                    *)

\* nothing of app/format and no call of choosed_gpt4_key is under way
FormatIdle ==
    /\ pc = "idle"
    /\ cfg = NoneCfg
    /\ dataset = EmptyDs
    /\ inst = NewInst(1)
    /\ formats = <<>>
    /\ messages_cols = {}
    /\ raised = NoRaise
    /\ hist = [s \in StageNames |-> NotRun]
    /\ b_pc = "idle"
    /\ pattern_role_map = <<>>
    /\ p_r_map = <<>>
    /\ b_cols = <<>>
    /\ b_i = 0
    /\ role_col = <<>>
    /\ b_out = NoOut
    /\ ParseIdle
    /\ KeysIdle

Elements == {"a", "b", "c"}

\* the lists of at most MaxItems elements, and those without a repeat
ItemSeqs == UNION {[1..n -> Elements] : n \in 1..MaxItems}
DistinctItemSeqs == {s \in ItemSeqs : \A i, j \in DOMAIN s : s[i] = s[j] => i = j}

FanOuts == {"Job.run", "_analyze", "_get_col_template_map"}
Callers == FanOuts \cup {"run_parallel_exec_but_return_in_order"}

\* what a call of exec_func on an element can give: one of two values
\* (the answer of the external model is not a function of the element) or
\* an exception
Values == {"v1", "v2"}
ExecOutcomes ==
    {[exc |-> "none", val |-> v] : v \in Values} \cup {[exc |-> "Exception", val |-> ""]}

\* the responses of call_openai_api to get_text_quality: a completion that
\* parses to a TextQuality, a completion that is not JSON, or None for a
\* filtered prompt
Responses == Values \cup {"not_json", "filtered"}

\* one run of the body of get_text_quality: None has no attribute
\* choices; json.JSONDecodeError of from_json is caught in the loop, and
\* the empty tqs raises ValueError
get_text_quality(response) ==
    IF response = "filtered" THEN [exc |-> "AttributeError", val |-> ""]
    ELSE IF response = "not_json" THEN [exc |-> "ValueError", val |-> ""]
    ELSE [exc |-> "none", val |-> response]

\* @retry(json.JSONDecodeError, tries=3, delay=3): the exceptions that
\* lead to another try, and the number of tries
RetryTries == 3
Retried(exc) == exc = "JSONDecodeError"

\* Job.run on the items of the loaded dict, _analyze on set(column),
\* _get_col_template_map on the (key, value) pairs of the sample record:
\* no element comes twice; the in-order helper is given any list
InitPar ==
    /\ FormatIdle
    /\ CallIdle
    /\ SaveIdle
    /\ x_caller \in Callers
    /\ x_items \in IF x_caller \in FanOuts THEN DistinctItemSeqs ELSE ItemSeqs
    /\ x_pending = DOMAIN x_items
    /\ x_tries = [i \in DOMAIN x_items |-> 0]
    /\ x_computed = [i \in DOMAIN x_items |-> NoData]
    /\ x_result = <<>>
    /\ x_pc = "running"
    /\ x_out = NoOutcome

\* the future of index i completes with data d: one pass of the loop over
\* futures.as_completed, result.append((element, data)) or
\* result.append((element, exc))
Completed(i, d) ==
    /\ x_computed' = [x_computed EXCEPT ![i] = d]
    /\ x_result' = Append(x_result, [element |-> x_items[i], data |-> d])
    /\ x_pending' = x_pending \ {i}

\* a worker thread ends exec_func(element) for a caller other than _analyze
WorkerDone ==
    /\ x_pc = "running"
    /\ x_caller # "_analyze"
    /\ \E i \in x_pending : \E d \in ExecOutcomes : Completed(i, d)
    /\ UNCHANGED <<x_caller, x_items, x_tries, x_pc, x_out>>
    /\ UNCHANGED <<chainVars, bindVars, parseVars, keyVars, callVars, saveVars>>

\* a worker thread makes one try of the decorated get_text_quality(text):
\* the decorator tries again when the exception is one it was given and
\* tries are left, and lets every other outcome through
QualityTry ==
    /\ x_pc = "running"
    /\ x_caller = "_analyze"
    /\ \E i \in x_pending : \E r \in Responses :
         LET d == get_text_quality(r)
         IN /\ x_tries' = [x_tries EXCEPT ![i] = x_tries[i] + 1]
            /\ IF Retried(d.exc) /\ x_tries[i] + 1 < RetryTries
               THEN UNCHANGED <<x_computed, x_result, x_pending>>
               ELSE Completed(i, d)
    /\ UNCHANGED <<x_caller, x_items, x_pc, x_out>>
    /\ UNCHANGED <<chainVars, bindVars, parseVars, keyVars, callVars, saveVars>>

\* the data of the tuples of result whose data is no exception
Delivered(result) ==
    LET Good(t) == t.data.exc = "none"
    IN SelectSeq(result, Good)

\* Job.run after run_parallel_exec(self._format_dedup_and_analyze, ...):
\* the errors are logged and the other responses are kept
JobRun ==
    /\ x_pc = "running"
    /\ x_caller = "Job.run"
    /\ x_pending = {}
    /\ x_pc' = "done"
    /\ x_out' = [exc |-> "none", value |-> Delivered(x_result)]
    /\ UNCHANGED <<x_caller, x_items, x_pending, x_tries, x_computed, x_result>>
    /\ UNCHANGED <<chainVars, bindVars, parseVars, keyVars, callVars, saveVars>>

\* QualityAnalyzer._analyze after dict(run_parallel_exec(...)):
\* v.fix_category(...) is called on every value of the dict, and an
\* exception object has no attribute fix_category
Analyze ==
    /\ x_pc = "running"
    /\ x_caller = "_analyze"
    /\ x_pending = {}
    /\ IF \E k \in DOMAIN x_result : x_result[k].data.exc # "none"
       THEN /\ x_pc' = "aborted"
            /\ x_out' = [exc |-> "AttributeError", value |-> <<>>]
       ELSE /\ x_pc' = "done"
            /\ x_out' = [exc |-> "none", value |-> x_result]
    /\ UNCHANGED <<x_caller, x_items, x_pending, x_tries, x_computed, x_result>>
    /\ UNCHANGED <<chainVars, bindVars, parseVars, keyVars, callVars, saveVars>>

\* ConversationalTextFormat._get_col_template_map after run_parallel_exec:
\* set(templates) is taken of every data, and an exception object is not
\* iterable
GetColTemplateMap ==
    /\ x_pc = "running"
    /\ x_caller = "_get_col_template_map"
    /\ x_pending = {}
    /\ IF \E k \in DOMAIN x_result : x_result[k].data.exc # "none"
       THEN /\ x_pc' = "aborted"
            /\ x_out' = [exc |-> "TypeError", value |-> <<>>]
       ELSE /\ x_pc' = "done"
            /\ x_out' = [exc |-> "none", value |-> x_result]
    /\ UNCHANGED <<x_caller, x_items, x_pending, x_tries, x_computed, x_result>>
    /\ UNCHANGED <<chainVars, bindVars, parseVars, keyVars, callVars, saveVars>>

\* iterable.index(x): the index of the first element equal to x
FirstIndex(items, x) ==
    CHOOSE i \in DOMAIN items : items[i] = x /\ \A j \in DOMAIN items : items[j] = x => i <= j

\* result.sort(key=lambda x: iterable.index(x[0])): a stable sort, tuples
\* of equal key keep their completion order
RECURSIVE SortByFirstIndex(_, _, _)
SortByFirstIndex(result, items, k) ==
    IF k > Len(items) THEN <<>>
    ELSE LET HasKey(t) == FirstIndex(items, t.element) = k
         IN SelectSeq(result, HasKey) \o SortByFirstIndex(result, items, k + 1)

\* run_parallel_exec_but_return_in_order: [x[-1] for x in result]
ReturnInOrder ==
    /\ x_pc = "running"
    /\ x_caller = "run_parallel_exec_but_return_in_order"
    /\ x_pending = {}
    /\ x_pc' = "done"
    /\ x_out' = [exc |-> "none",
                 value |-> LET sorted == SortByFirstIndex(x_result, x_items, 1)
                           IN [k \in DOMAIN sorted |-> sorted[k].data]]
    /\ UNCHANGED <<x_caller, x_items, x_pending, x_tries, x_computed, x_result>>
    /\ UNCHANGED <<chainVars, bindVars, parseVars, keyVars, callVars, saveVars>>

NextPar ==
    \/ WorkerDone
    \/ QualityTry
    \/ JobRun
    \/ Analyze
    \/ GetColTemplateMap
    \/ ReturnInOrder

SpecPar == InitPar /\ [][NextPar]_vars

\* C21: per-item error isolation.  In every parallel fan-out (Job.run
\* over the splits, quality scoring over the texts, the Template
\* Reverse-Engineer over the candidate columns), when the processing of
\* an item raises, the exception is recorded against that item, every
\* other item is still processed and its result is delivered to the
\* caller, and the batch completes instead of aborting.
C21_ErrorIsolation ==
    x_caller \in FanOuts =>
       /\ \A k \in DOMAIN x_result :
             \E i \in DOMAIN x_items :
                x_items[i] = x_result[k].element /\ x_computed[i] = x_result[k].data
       /\ x_pc # "aborted"
       /\ x_pc = "done" =>
             \A i \in DOMAIN x_items :
                x_computed[i].exc = "none" =>
                   \E k \in DOMAIN x_out.value :
                      /\ x_out.value[k].element = x_items[i]
                      /\ x_out.value[k].data = x_computed[i]

\* C22: input-order reassembly.  For every input list, repeated elements
\* included, and every completion order of the worker threads,
\* run_parallel_exec_but_return_in_order returns a list as long as the
\* input whose i-th entry is the result computed for the i-th element.
C22_InputOrder ==
    (x_caller = "run_parallel_exec_but_return_in_order" /\ x_pc = "done") =>
       /\ Len(x_out.value) = Len(x_items)
       /\ \A i \in DOMAIN x_items : x_out.value[i] = x_computed[i]

\* C24: JSON-parse retry in quality scoring.  When the response of the
\* judge model for a text cannot be parsed as JSON, get_text_quality is
\* tried again, up to three tries, and only after all tries have failed
\* does the failure become the terminal error of that text.
C24_ParseRetry ==
    x_caller = "_analyze" =>
       \A i \in DOMAIN x_items :
          x_computed[i].exc = "ValueError" => x_tries[i] = RetryTries

----------------------------------------------------------------------------
(* call_openai_api of app/helpers/call_openai.py, called by               *)
(* QualityAnalyzer.get_text_quality, SFTFormat._get_role_col_map and      *)
(* ConversationalTextFormat._get_template_openai.  str(e) of a failed     *)
(* call is the sequence of its words, each a number or not.               *)

Word(w) == [w |-> w, n |-> -1]
Number(n) == [w |-> "", n |-> n]
IsNumber(tok) == tok.n >= 0

FilteredText == <<Word("The"), Word("response was filtered")>>

ErrorTexts ==
    {<<Word("Rate"), Word("limit"), Word("retry"), Word("after"), Number(20), Word("seconds")>>,
     <<Word("retry"), Word("after"), Number(2), Word("min")>>,
     <<Word("Too"), Word("many"), Word("requests")>>,
     <<Word("retry"), Word("after"), Number(7)>>,
     <<Word("code"), Number(429), Word("wait"), Number(5), Number(6), Word("sec")>>,
     FilteredText}

\* re.findall(r"\s(\d+)\s(?:sec|min)?", text) from word i on: a number
\* matches when whitespace stands before and after it, and a match takes
\* the whitespace after it, which the next word then lacks
RECURSIVE FindNumbers(_, _, _)
FindNumbers(text, i, space_before) ==
    IF i > Len(text) THEN <<>>
    ELSE IF IsNumber(text[i]) /\ space_before /\ i < Len(text)
    THEN <<text[i].n>> \o FindNumbers(text, i + 1, FALSE)
    ELSE FindNumbers(text, i + 1, TRUE)

DefaultWait == 60
SleepMargin == 60

\* get_openai_rate_limit_seconds: the last number found, 60 when none
get_openai_rate_limit_seconds(error_text) ==
    LET found == FindNumbers(error_text, 1, FALSE)
    IN IF Len(found) = 0 THEN DefaultWait ELSE found[Len(found)]

JudgeClassifiers == {"_get_role_col_map", "_get_template_openai"}
ApiCallers == JudgeClassifiers \cup {"get_text_quality"}

InitCall ==
    /\ FormatIdle
    /\ ParIdle
    /\ SaveIdle
    /\ c_caller \in ApiCallers
    /\ c_pc = "call"
    /\ c_error = <<>>
    /\ c_slept = 0
    /\ c_attempts = 0

\* one more call of openai.ChatCompletion.create, counted up to MaxAttempts
Attempt == c_attempts' = Min(c_attempts + 1, MaxAttempts)

\* openai.ChatCompletion.create returns: return response
CreateReturns ==
    /\ c_pc = "call"
    /\ Attempt
    /\ c_pc' = "done"
    /\ UNCHANGED <<c_caller, c_error, c_slept>>
    /\ UNCHANGED <<chainVars, bindVars, parseVars, keyVars, parVars, saveVars>>

\* it raises and "response was filtered" is in str(e): return None
CreateFiltered ==
    /\ c_pc = "call"
    /\ Attempt
    /\ c_error' = FilteredText
    /\ c_pc' = "done"
    /\ UNCHANGED <<c_caller, c_slept>>
    /\ UNCHANGED <<chainVars, bindVars, parseVars, keyVars, parVars, saveVars>>

\* it raises anything else: sleep(rate_limit_seconds + 60)
CreateFails ==
    /\ c_pc = "call"
    /\ Attempt
    /\ \E e \in ErrorTexts \ {FilteredText} :
         /\ c_error' = e
         /\ c_slept' = get_openai_rate_limit_seconds(e) + SleepMargin
    /\ c_pc' = "sleep"
    /\ UNCHANGED c_caller
    /\ UNCHANGED <<chainVars, bindVars, parseVars, keyVars, parVars, saveVars>>

\* the sleep is over: return call_openai_api(messages, temperature, n),
\* whoever the caller is and however many attempts were made
SleepAndRetry ==
    /\ c_pc = "sleep"
    /\ c_pc' = "call"
    /\ UNCHANGED <<c_caller, c_error, c_slept, c_attempts>>
    /\ UNCHANGED <<chainVars, bindVars, parseVars, keyVars, parVars, saveVars>>

NextCall ==
    \/ CreateReturns
    \/ CreateFiltered
    \/ CreateFails
    \/ SleepAndRetry

SpecCall == InitCall /\ [][NextCall]_vars

\* the thread that runs call_openai_api is scheduled again and again, and
\* sleep returns; whether the API answers is not in the code's hands
SpecCallFair == SpecCall /\ WF_vars(NextCall)

\* C23: rate-limit retry bound.  When a call of the external model keeps
\* failing with a rate-limit error, each failure is followed by a sleep of
\* the parsed wait plus a fixed margin and a retry of the same call; in
\* the judge-based classifiers (the LLM mode of SFT, the Template
\* Reverse-Engineer) the call stops retrying after a fixed number of
\* attempts, so the call of a classifier ends whatever the API answers.
C23_RetryBound ==
    /\ [](c_pc = "sleep" =>
             c_slept = get_openai_rate_limit_seconds(c_error) + SleepMargin)
    /\ (c_caller \in JudgeClassifiers) => <>(c_pc = "done")

----------------------------------------------------------------------------
(* Job.run of app/job.py saving the processed datasets:                   *)
(* run_parallel_exec(self.save, data) runs Job.save for every             *)
(* (name, dataset) tuple in a worker thread of its own.  All workers      *)
(* share self.config.save.local.  A file name is its stem and its last    *)
(* suffix ("" when it has none); a dataset is named by the name it came   *)
(* with.                                                                  *)

FileName(stem, ext) == [stem |-> stem, ext |-> ext]

SaveNames == {FileName("train", ""), FileName("test", ""), FileName("train", "v2")}

\* the lists of at most MaxSaves tuples with different names
SaveLists ==
    {s \in UNION {[1..n -> SaveNames] : n \in 1..MaxSaves} :
        \A i, j \in DOMAIN s : s[i] = s[j] => i = j}

\* LocalSaverConfig(): validate_fields gives the file name
\* get_ts_filename("dataset").name, and filetype stays FileType.PARQUET
DefaultFileName == FileName("dataset_ts", "")
filetype == "parquet"

\* LocalSaverConfig.save_path: the file name as it is when it ends with
\* the suffix of the file type, else Path(filename).with_suffix(suffix),
\* which replaces the last suffix of the name
save_path(filename) ==
    [directory |-> "processed", stem |-> filename.stem, ext |-> filetype]

InitSave ==
    /\ FormatIdle
    /\ ParIdle
    /\ CallIdle
    /\ s_data \in SaveLists
    /\ s_filename = DefaultFileName
    /\ s_pc = [t \in DOMAIN s_data |-> "start"]
    /\ s_files = {}

\* Job.save: name, dataset = name_and_dataset;
\* self.config.save.local.filename = name
SetFilename ==
    \E t \in DOMAIN s_data :
        /\ s_pc[t] = "start"
        /\ s_filename' = s_data[t]
        /\ s_pc' = [s_pc EXCEPT ![t] = "named"]
        /\ UNCHANGED <<s_data, s_files>>
        /\ UNCHANGED <<chainVars, bindVars, parseVars, keyVars, parVars, callVars>>

\* Saver(dataset, self.config.save).save(): LocalSaver.save reads
\* self.config.save_path and writes its dataset there
SaverSave ==
    \E t \in DOMAIN s_data :
        /\ s_pc[t] = "named"
        /\ s_files' = {f \in s_files : f.path # save_path(s_filename)}
                         \cup {[path |-> save_path(s_filename), data |-> s_data[t]]}
        /\ s_pc' = [s_pc EXCEPT ![t] = "saved"]
        /\ UNCHANGED <<s_data, s_filename>>
        /\ UNCHANGED <<chainVars, bindVars, parseVars, keyVars, parVars, callVars>>

NextSave ==
    \/ SetFilename
    \/ SaverSave

SpecSave == InitSave /\ [][NextSave]_vars

\* C29: parallel saving keeps the datasets apart.  When Job.run saves
\* several processed datasets in parallel, for every interleaving of the
\* save workers a file holds the dataset whose name gives its path, and
\* once all workers are done every dataset is in the file at the path
\* derived from its own name: none lies under another dataset's file name.
C29_SavesApart ==
    /\ \A f \in s_files : f.path = save_path(f.data)
    /\ (s_data # <<>> /\ \A t \in DOMAIN s_data : s_pc[t] = "saved") =>
          \A t \in DOMAIN s_data :
             [path |-> save_path(s_data[t]), data |-> s_data[t]] \in s_files
====
